---------------------------- MODULE Spec2Model ----------------------------
(***************************************************************************)
(* A model of the DevSecOps SME chat platform:                             *)
(*   - the in-memory knowledge base of server.js / ai-chat-server.js       *)
(*     (processPDF, extractDevSecOpsContent, searchKnowledgeBase,          *)
(*     extractRelevantSnippets, the /api/search route and the socket       *)
(*     chat_message handler),                                              *)
(*   - the documentation server listed in CHATBOT_ALTERNATIVES.md          *)
(*     (loadFile, searchDocumentation, extractSnippets, search_docs),      *)
(*   - the response router of ai-chat-server.js (AIService), its context   *)
(*     loader (loadDirectoryRecursively) and its local responder           *)
(*     (analyzeIntent, generateLocalResponse) called on its own, and the   *)
(*     chat handler of mcp-server/web-ui-openai.cjs with its calls of the  *)
(*     documentation server (queryMCPServer).                              *)
(* Text is modelled by TLA+ strings, character by character.  Timestamps   *)
(* (extractedAt, searchedAt, timestamp) are left out of the records.       *)
(***************************************************************************)
EXTENDS Naturals, Sequences, FiniteSets, TLC

VARIABLES
    pdfContents,      \* server.js:51    Map filename -> {filename, content}, in insertion order
    knowledgeBase,    \* server.js:52    {cujs, slis, slos, bestPractices}: arrays of strings
    uploads,          \* number of /api/upload requests served so far
    reply,            \* the last answer of the knowledge-base server (HTTP or socket)
    docCache,         \* CHATBOT_ALTERNATIVES.md:264  Map id -> DocContent, in insertion order
    docsServing,      \* the documentation server has connected its transport (main)
    toolReply,        \* the last answer of the documentation server's tool handler
    providers,        \* ai-chat-server.js:52  which providers are available
    selectedProvider, \* ai-chat-server.js:70  the provider chosen at construction
    contextFiles,     \* ai-chat-server.js:964 Map path -> {content, type}, in insertion order
    contextNext,      \* how many entries of the context directory the loader has passed
    contextLog,       \* the paths the loader logged as "Could not read ..."
    chats,            \* per socket: the chat_message handler and what it has emitted
    webChat,          \* web-ui-openai.cjs: the last chat_message and what was emitted for it
    synthesis,        \* the last call of generateLocalResponse: arguments, intent, result
    mcpReady,         \* web-ui-openai.cjs:40  the documentation server has printed its banner
    now,              \* the value of Date.now(), in milliseconds
    calls,            \* per caller: its call of queryMCPServer (promise, listener, timer)
    unanswered        \* the requests written to the server's stdin and not answered yet

kbVars == <<pdfContents, knowledgeBase, uploads, reply>>

docVars == <<docCache, docsServing, toolReply>>

chatVars == <<providers, selectedProvider, contextFiles, contextNext, contextLog, chats>>

webVars == <<webChat>>

localVars == <<synthesis>>

mcpVars == <<mcpReady, now, calls, unanswered>>

vars == <<kbVars, docVars, chatVars, webVars, localVars, mcpVars>>

\* what the knowledge-base server leaves alone, and the documentation server
notKB == <<docVars, chatVars, webVars, localVars, mcpVars>>

notDocs == <<kbVars, chatVars, webVars, localVars, mcpVars>>

notChat == <<kbVars, docVars, webVars, localVars, mcpVars>>

notWeb == <<kbVars, docVars, chatVars, localVars, mcpVars>>

notLocal == <<kbVars, docVars, chatVars, webVars, mcpVars>>

notMcp == <<kbVars, docVars, chatVars, webVars, localVars>>

-----------------------------------------------------------------------------
(* Strings, as JavaScript's String methods compute them                    *)

UPPER == "ABCDEFGHIJKLMNOPQRSTUVWXYZ"
LOWER == "abcdefghijklmnopqrstuvwxyz"

CharAt(s, i) == SubSeq(s, i, i)

UpperChars == {CharAt(UPPER, i) : i \in 1..Len(UPPER)}

LowerOf ==
    [c \in UpperChars |-> CharAt(LOWER, CHOOSE i \in 1..Len(UPPER) : CharAt(UPPER, i) = c)]

\* String.prototype.toLowerCase, one character
ToLowerChar(c) == IF c \in UpperChars THEN LowerOf[c] ELSE c

RECURSIVE LowerFrom(_, _)
LowerFrom(s, i) ==
    IF i > Len(s) THEN "" ELSE ToLowerChar(CharAt(s, i)) \o LowerFrom(s, i + 1)

\* String.prototype.toLowerCase
ToLowerCase(s) == LowerFrom(s, 1)

\* String.prototype.includes: the empty string occurs in every string
Includes(s, q) ==
    \E i \in 1..(Len(s) + 1) :
        /\ i + Len(q) - 1 <= Len(s)
        /\ SubSeq(s, i, i + Len(q) - 1) = q

\* String.prototype.startsWith
StartsWith(s, q) == Len(q) <= Len(s) /\ SubSeq(s, 1, Len(q)) = q

\* the characters \s of a regular expression and String.prototype.trim strip
WhiteSpace == {" ", "\n", "\t"}

IsSpace(c) == c \in WhiteSpace

\* String.prototype.trim
Trim(s) ==
    LET inked == {i \in 1..Len(s) : ~IsSpace(CharAt(s, i))}
        first == CHOOSE i \in inked : \A j \in inked : i <= j
        last  == CHOOSE i \in inked : \A j \in inked : j <= i
    IN  IF inked = {} THEN "" ELSE SubSeq(s, first, last)

\* the sentence terminators of [^.!?] and of split(/[.!?]+/)
Terminators == {".", "!", "?"}

IsTerminator(c) == c \in Terminators

\* the end of the sentence-like unit that starts at i: the last index before
\* the next terminator (i - 1 when a terminator stands at i)
RECURSIVE UnitEnd(_, _)
UnitEnd(s, i) ==
    IF i > Len(s) \/ IsTerminator(CharAt(s, i)) THEN i - 1 ELSE UnitEnd(s, i + 1)

\* the first index at or after i that holds no terminator
RECURSIVE SkipTerminators(_, _)
SkipTerminators(s, i) ==
    IF i <= Len(s) /\ IsTerminator(CharAt(s, i)) THEN SkipTerminators(s, i + 1) ELSE i

\* content.split(/[.!?]+/): the pieces between maximal runs of terminators,
\* the empty pieces at either end included
RECURSIVE SplitFrom(_, _)
SplitFrom(s, i) ==
    LET e == UnitEnd(s, i)
    IN  IF e >= Len(s)
        THEN <<SubSeq(s, i, e)>>
        ELSE <<SubSeq(s, i, e)>> \o SplitFrom(s, SkipTerminators(s, e + 1))

SplitSentences(s) == SplitFrom(s, 1)

\* Array.prototype.includes on an array of strings
ArrayIncludes(arr, x) == \E i \in 1..Len(arr) : arr[i] = x

\* Array.prototype.slice(0, n)
Slice(arr, n) == SubSeq(arr, 1, IF Len(arr) < n THEN Len(arr) ELSE n)

-----------------------------------------------------------------------------
(* The knowledge base: server.js (and its copy in ai-chat-server.js)       *)

\* the bounds of the knowledge-base model
MaxUploads == 2

\* the uploaded files: path.basename of the stored upload (Date.now() + '-' +
\* originalname) and the text pdf-parse returns for it
Files == {
    [filename |-> "1-cuj.pdf",  text |-> "CUJ: login. cuj: login \n. cuj: login. Relogin"],
    [filename |-> "5-copy.pdf", text |-> "CUJ: login. cuj: login \n. cuj: login. Relogin"],
    [filename |-> "2-slo.pdf",
     text |-> "Our service level objective is 99.9% uptime! Teams should: alert"],
    [filename |-> "2-slo.pdf",  text |-> "critical user journeys: checkout?"],
    [filename |-> "3-sli.pdf",  text |-> "best practice: alert on SLIs - burn rate"],
    [filename |-> "4-ops.pdf",
     text |-> "Intro.\nbest practice: alert on SLIs - burn rate.\nEnd. "]
}

\* the pattern tables of extractDevSecOpsContent: each pattern is
\*   /<kw>[s]?[:\-\s]([^.!?]*)/gi   (plural) or   /<kw>[:\-\s]([^.!?]*)/gi
cujPatterns == <<
    [kw |-> "critical user journey", plural |-> TRUE],
    [kw |-> "cuj", plural |-> TRUE],
    [kw |-> "user journey", plural |-> TRUE] >>

sliPatterns == <<
    [kw |-> "service level indicator", plural |-> TRUE],
    [kw |-> "sli", plural |-> TRUE],
    [kw |-> "indicator", plural |-> TRUE] >>

sloPatterns == <<
    [kw |-> "service level objective", plural |-> TRUE],
    [kw |-> "slo", plural |-> TRUE],
    [kw |-> "objective", plural |-> TRUE] >>

bestPracticePatterns == <<
    [kw |-> "best practice", plural |-> TRUE],
    [kw |-> "recommendation", plural |-> TRUE],
    [kw |-> "should", plural |-> FALSE] >>

\* the class [:\-\s]
IsSeparator(c) == c \in {":", "-"} \union WhiteSpace

\* The index of the last character of the match of pattern pat that starts at
\* index i of content, 0 when the pattern does not match there.  The keyword
\* is compared without case (flag i); [s]? takes an s when the separator
\* follows it, and otherwise nothing; ([^.!?]*) runs to the next terminator.
MatchEnd(content, i, pat) ==
    LET n    == Len(pat.kw)
        j    == i + n
        word == /\ i + n - 1 <= Len(content)
                /\ ToLowerChar(CharAt(content, i)) = CharAt(pat.kw, 1)
                /\ ToLowerCase(SubSeq(content, i, i + n - 1)) = pat.kw
        sep  == IF /\ pat.plural
                   /\ j + 1 <= Len(content)
                   /\ ToLowerChar(CharAt(content, j)) = "s"
                   /\ IsSeparator(CharAt(content, j + 1))
                THEN j + 1
                ELSE IF j <= Len(content) /\ IsSeparator(CharAt(content, j))
                     THEN j
                     ELSE 0
    IN  IF word /\ sep > 0 THEN UnitEnd(content, sep + 1) ELSE 0

\* content.match(pattern) with flag g: the matched substrings, leftmost first,
\* each search resuming where the previous match ended (<<>> models null)
RECURSIVE MatchAllFrom(_, _, _)
MatchAllFrom(content, i, pat) ==
    IF i > Len(content) THEN <<>>
    ELSE LET e == MatchEnd(content, i, pat)
         IN  IF e > 0
             THEN <<SubSeq(content, i, e)>> \o MatchAllFrom(content, e + 1, pat)
             ELSE MatchAllFrom(content, i + 1, pat)

\* the matches of every pattern in the texts of the uploaded files, computed
\* once
MatchTable ==
    LET Range(t) == {t[i] : i \in 1..Len(t)}
        patterns == Range(cujPatterns) \union Range(sliPatterns)
                        \union Range(sloPatterns) \union Range(bestPracticePatterns)
    IN  [text \in {f.text : f \in Files} |->
            [pat \in patterns |-> MatchAllFrom(text, 1, pat)]]

MatchAll(content, pat) ==
    IF content \in DOMAIN MatchTable
    THEN MatchTable[content][pat]
    ELSE MatchAllFrom(content, 1, pat)

\* PushIfAbsent looking up the match as matched, not as trimmed
PushIfAbsentUntrimmed(arr, match) ==
    IF ArrayIncludes(arr, match) THEN arr ELSE Append(arr, Trim(match))

\* PushIfAbsent without the lookup
PushAlways(arr, match) == Append(arr, Trim(match))

\* if (!arr.includes(match.trim())) arr.push(match.trim())
PushIfAbsent(arr, match) ==
    IF ArrayIncludes(arr, Trim(match)) THEN arr ELSE Append(arr, Trim(match))

\* matches.forEach(...)
RECURSIVE PushMatches(_, _)
PushMatches(arr, matches) ==
    IF matches = <<>> THEN arr
    ELSE PushMatches(PushIfAbsent(arr, Head(matches)), Tail(matches))

\* patterns.forEach(...)
RECURSIVE ExtractInto(_, _, _)
ExtractInto(arr, patterns, content) ==
    IF patterns = <<>> THEN arr
    ELSE ExtractInto(PushMatches(arr, MatchAll(content, Head(patterns))),
                     Tail(patterns), content)

\* extractDevSecOpsContent(content): the knowledge base after the call
extractDevSecOpsContent(kb, content) ==
    [ cujs          |-> ExtractInto(kb.cujs, cujPatterns, content),
      slis          |-> ExtractInto(kb.slis, sliPatterns, content),
      slos          |-> ExtractInto(kb.slos, sloPatterns, content),
      bestPractices |-> ExtractInto(kb.bestPractices, bestPracticePatterns, content) ]

\* Map.prototype.set: a known key keeps its place, a new key goes last
MapSet(map, key, value) ==
    IF \E i \in 1..Len(map) : map[i].filename = key
    THEN [i \in 1..Len(map) |-> IF map[i].filename = key THEN value ELSE map[i]]
    ELSE Append(map, value)

\* the value JavaScript calls undefined (a missing field of a request)
Undefined == "<undefined>"

\* the default of the parameter maxSnippets
MaxSnippets == 3

\* extractRelevantSnippets without .slice(0, maxSnippets)
extractRelevantSnippetsUnsliced(content, query) ==
    LET relevant == SelectSeq(SplitSentences(content),
                        LAMBDA sentence :
                            Includes(ToLowerCase(sentence), ToLowerCase(query)))
    IN  [i \in 1..Len(relevant) |-> Trim(relevant[i])]

\* extractRelevantSnippets(content, query): split, filter, slice, then trim
extractRelevantSnippets(content, query) ==
    LET sentences == SplitSentences(content)
        relevant  == SelectSeq(sentences,
                         LAMBDA sentence :
                             Includes(ToLowerCase(sentence), ToLowerCase(query)))
        kept      == Slice(relevant, MaxSnippets)
    IN  [i \in 1..Len(kept) |-> Trim(kept[i])]

\* the categories searchKnowledgeBase of server.js tests for, and the key of
\* results each one fills
CategoryKeys == [ cujs |-> "cujs", slis |-> "slis", slos |-> "slos",
                  bestPractices |-> "best-practices", pdfMatches |-> "pdfs" ]

ConceptKeys == {"cujs", "slis", "slos", "bestPractices"}

\* a search that does not filter the concept sets
FilterConceptsUnfiltered(arr, queryLower) == arr

\* knowledgeBase[k].filter(e => e.toLowerCase().includes(queryLower))
FilterConcepts(arr, queryLower) ==
    SelectSeq(arr, LAMBDA e : Includes(ToLowerCase(e), queryLower))

\* Array.from(pdfContents.entries()).filter(...).map(...)
PdfMatches(map, query) ==
    LET queryLower == ToLowerCase(query)
        hits == SelectSeq(map,
                    LAMBDA e : \/ Includes(ToLowerCase(e.filename), queryLower)
                               \/ Includes(ToLowerCase(e.content), queryLower))
    IN  [i \in 1..Len(hits) |->
            [ filename |-> hits[i].filename,
              relevantSnippets |-> extractRelevantSnippets(hits[i].content, query) ]]

\* Object.values(results).reduce((sum, arr) => sum + arr.length, 0)
RECURSIVE SumLengths(_, _)
SumLengths(results, keys) ==
    IF keys = {} THEN 0
    ELSE LET k == CHOOSE x \in keys : TRUE
         IN  Len(results[k]) + SumLengths(results, keys \ {k})

\* searchKnowledgeBase(query, category) of server.js; category has the
\* default 'all' when the caller passes undefined
searchKnowledgeBase(kb, map, query, categoryArg) ==
    LET category   == IF categoryArg = Undefined THEN "all" ELSE categoryArg
        queryLower == ToLowerCase(query)
        keys       == {k \in DOMAIN CategoryKeys :
                          category = "all" \/ category = CategoryKeys[k]}
        results    == [k \in keys |->
                          IF k = "pdfMatches"
                          THEN PdfMatches(map, query)
                          ELSE FilterConcepts(kb[k], queryLower)]
    IN  [ query |-> query,
          category |-> category,
          results |-> results,
          totalMatches |-> SumLengths(results, keys) ]

\* the fixed advice of getDevSecOpsRecommendations, by the word that selects it
StaticAdvice == [
    security   |-> << "Implement security scanning in CI/CD pipeline",
                      "Regular vulnerability assessments",
                      "Zero-trust architecture principles",
                      "Secure coding practices training" >>,
    monitoring |-> << "Implement comprehensive observability",
                      "Set up alerting for critical metrics",
                      "Monitor user journey performance",
                      "Track SLI/SLO compliance" >>,
    deployment |-> << "Blue-green deployment strategy",
                      "Automated rollback mechanisms",
                      "Feature flags for controlled releases",
                      "Infrastructure as Code (IaC)" >> ]

\* getDevSecOpsRecommendations(context)
getDevSecOpsRecommendations(kb, context) ==
    LET contextLower == ToLowerCase(context)
        Pick(word) == IF Includes(contextLower, word) THEN StaticAdvice[word] ELSE <<>>
        recommendations ==
            Pick("security") \o Pick("monitoring") \o Pick("deployment")
              \o FilterConcepts(kb.bestPractices, contextLower)
    IN  [ context |-> context,
          recommendations |-> recommendations,
          totalRecommendations |-> Len(recommendations) ]

-----------------------------------------------------------------------------
(* The requests of server.js                                               *)

\* the queries and messages the clients send
Queries == {"", " ", " cuj", "LOGIN"}

\* the category field of a search request
Categories == {"all", "cujs", "pdfs", "reports"}

\* the type field of a chat_message
ChatTypes == {"search", "recommendations", "cujs", "slis", "slos", "general"}

NoBody == [none |-> TRUE]

NoReply == [channel |-> "none", status |-> "none", kind |-> "none",
            body |-> NoBody, error |-> ""]

HttpReply(status, kind, body, error) ==
    [channel |-> "http", status |-> status, kind |-> kind, body |-> body, error |-> error]

SocketEmit(event, kind, body, error) ==
    [channel |-> "socket", status |-> event, kind |-> kind, body |-> body, error |-> error]

EmptyKnowledgeBase ==
    [cujs |-> <<>>, slis |-> <<>>, slos |-> <<>>, bestPractices |-> <<>>]

ConceptCounts(kb) == [k \in ConceptKeys |-> Len(kb[k])]

\* processPDF that stores the document and leaves the extraction to a later
\* turn of the event loop
processPDFStoreOnly(map, kb, filename, content) ==
    [ pdfContents   |-> MapSet(map, filename, [filename |-> filename, content |-> content]),
      knowledgeBase |-> kb ]


\* processPDF(filePath) when readFile and pdfParse succeed: the later state
\* of (pdfContents, knowledgeBase).  The two awaits come before the first
\* access to the shared state; extractDevSecOpsContent holds no await, so the
\* store and the extraction run in one turn of the event loop.
processPDF(map, kb, filename, content) ==
    [ pdfContents   |-> MapSet(map, filename, [filename |-> filename, content |-> content]),
      knowledgeBase |-> extractDevSecOpsContent(kb, content) ]

\* POST /api/upload with a file that is read and parsed
UploadOk(filename, content) ==
    /\ uploads < MaxUploads
    /\ LET after == processPDF(pdfContents, knowledgeBase, filename, content)
       IN  /\ pdfContents' = after.pdfContents
           /\ knowledgeBase' = after.knowledgeBase
           /\ reply' = HttpReply("200", "upload",
                           [ success |-> TRUE, filename |-> filename,
                             contentLength |-> Len(content),
                             extractedConcepts |-> ConceptCounts(after.knowledgeBase) ],
                           "")
    /\ uploads' = uploads + 1
    /\ UNCHANGED notKB

\* an upload that fails after the document was stored: the catch block
\* leaves the entry in the store
UploadFailAfterStore(filename) ==
    /\ uploads < MaxUploads
    /\ uploads' = uploads + 1
    /\ pdfContents' = MapSet(pdfContents, filename, [filename |-> filename, content |-> ""])
    /\ reply' = HttpReply("500", "error", NoBody, "Failed to process PDF")
    /\ UNCHANGED <<knowledgeBase, notKB>>


\* POST /api/upload when fs.readFile or pdfParse rejects: processPDF throws
\* before it touches the store
UploadFail(filename) ==
    /\ uploads < MaxUploads
    /\ uploads' = uploads + 1
    /\ reply' = HttpReply("500", "error", NoBody, "Failed to process PDF")
    /\ UNCHANGED <<pdfContents, knowledgeBase, notKB>>

\* POST /api/upload without a file
UploadNoFile ==
    /\ reply' = HttpReply("400", "error", NoBody, "No file uploaded")
    /\ UNCHANGED <<pdfContents, knowledgeBase, uploads, notKB>>

\* POST /api/search: if (!query) 400, else searchKnowledgeBase(query, category)
ApiSearch(query, category) ==
    /\ reply' = IF query = Undefined \/ query = ""
                THEN HttpReply("400", "error", NoBody, "Query is required")
                ELSE HttpReply("200", "search",
                         searchKnowledgeBase(knowledgeBase, pdfContents, query, category), "")
    /\ UNCHANGED <<pdfContents, knowledgeBase, uploads, notKB>>

\* the response of the chat_message handler of server.js before formatting;
\* message.toLowerCase() of an undefined message throws a TypeError
ChatThrows(message, type) ==
    message = Undefined /\ type \notin {"cujs", "slis", "slos"}

ChatResponse(kb, map, message, type) ==
    CASE type = "recommendations" -> getDevSecOpsRecommendations(kb, message)
      [] type \in {"cujs", "slis", "slos"} ->
            [concepts |-> kb[type], count |-> Len(kb[type])]
      [] OTHER -> searchKnowledgeBase(kb, map, message, Undefined)

ChatKind(type) ==
    CASE type = "recommendations" -> "recommendations"
      [] type \in {"cujs", "slis", "slos"} -> "concepts"
      [] OTHER -> "search"

\* socket.on('chat_message') of server.js, with a data object
SocketChat(message, type) ==
    /\ reply' =
         IF ChatThrows(message, type)
         THEN SocketEmit("chat_error", "error", NoBody,
                         "Cannot read properties of undefined")
         ELSE LET response == ChatResponse(knowledgeBase, pdfContents, message, type)
              IN  SocketEmit("chat_response", ChatKind(type),
                      [ message |-> response,
                        helpfulMessage |-> ChatKind(type) = "search"
                                             /\ response.totalMatches = 0 ],
                      "")
    /\ UNCHANGED <<pdfContents, knowledgeBase, uploads, notKB>>

\* socket.on('chat_message') of server.js without a data object: the
\* destructuring of data stands before the try block, so the async handler
\* rejects and nothing is emitted
SocketChatNoData ==
    /\ reply' = SocketEmit("unhandledRejection", "error", NoBody,
                           "Cannot destructure property 'message' of 'data'")
    /\ UNCHANGED <<pdfContents, knowledgeBase, uploads, notKB>>

-----------------------------------------------------------------------------
(* The specification of the knowledge-base server                          *)

InitKB ==
    /\ pdfContents = <<>>
    /\ knowledgeBase = EmptyKnowledgeBase
    /\ uploads = 0
    /\ reply = NoReply

NextKB ==
    \/ \E f \in Files : UploadOk(f.filename, f.text)
    \/ \E f \in Files : UploadFail(f.filename)
    \/ UploadNoFile
    \/ \E q \in Queries \union {Undefined}, c \in Categories \union {Undefined} :
           ApiSearch(q, c)
    \/ \E m \in Queries \union {Undefined}, t \in ChatTypes : SocketChat(m, t)
    \/ SocketChatNoData



-----------------------------------------------------------------------------
(* Properties of the knowledge-base server                                 *)

NoDuplicates(arr) == \A i, j \in 1..Len(arr) : arr[i] = arr[j] => i = j

IsPrefix(a, b) == Len(a) <= Len(b) /\ SubSeq(b, 1, Len(a)) = a

ContentStored(text) == \E i \in 1..Len(pdfContents) : pdfContents[i].content = text

\* an upload of a text that is already stored leaves the concept sets as they are
IdempotentReload ==
    \A f \in Files :
        (uploads' # uploads /\ ContentStored(f.text) /\ UploadOk(f.filename, f.text))
            => knowledgeBase' = knowledgeBase

\* C2: extraction is idempotent: processing a text identical to one already
\* processed leaves the four concept sets exactly as they were (same entries,
\* same order), and every fragment is present exactly once.
C2_IdempotentExtraction ==
    /\ [][IdempotentReload]_kbVars
    /\ [](\A k \in ConceptKeys : NoDuplicates(knowledgeBase[k]))

\* the same text is stored under two file names: it was processed twice
C2_Witness ==
    /\ \E i, j \in 1..Len(pdfContents) :
          i # j /\ pdfContents[i].content = pdfContents[j].content
    /\ Len(knowledgeBase.cujs) = 2
    /\ reply.kind = "upload"

\* C3: after any sequence of loads each concept set holds no two equal
\* entries, and a step only appends to it: no entry is removed or reordered,
\* so the entries stay in first-seen order.
C3_DedupAppendOnly ==
    /\ [](\A k \in ConceptKeys : NoDuplicates(knowledgeBase[k]))
    /\ [][\A k \in ConceptKeys : IsPrefix(knowledgeBase[k], knowledgeBase'[k])]_kbVars

\* two different documents that yield the same best-practice fragment are
\* both stored, and the fragment is there once
C3_Witness ==
    /\ \E i, j \in 1..Len(pdfContents) :
          /\ pdfContents[i].filename = "3-sli.pdf"
          /\ pdfContents[j].filename = "4-ops.pdf"
    /\ knowledgeBase.bestPractices = <<"best practice: alert on SLIs - burn rate">>

\* the search result a reply carries (replies of kind "search" only)
SearchResultOf(r) == IF r.channel = "http" THEN r.body ELSE r.body.message

\* the snippet lists of a search reply, each with the content it was cut from
SnippetLists(r) ==
    IF r.kind = "search" /\ "pdfMatches" \in DOMAIN SearchResultOf(r).results
    THEN LET hits == SearchResultOf(r).results.pdfMatches
         IN  { [ snippets |-> hits[i].relevantSnippets,
                 content  |-> (CHOOSE e \in {pdfContents[j] : j \in 1..Len(pdfContents)} :
                                   e.filename = hits[i].filename).content ]
               : i \in 1..Len(hits) }
    ELSE {}

HasEdgeSpace(q) ==
    Len(q) > 0 /\ (IsSpace(CharAt(q, 1)) \/ IsSpace(CharAt(q, Len(q))))

ContainsQuery(text, q) == Includes(ToLowerCase(text), ToLowerCase(q))

\* C6 (as amended): snippet extraction returns at most 3 snippets; each one is
\* the trimmed form of a unit of the content whose lower-cased text contains
\* the lower-cased query, and the snippet itself contains the lower-cased
\* query whenever the query neither starts nor ends with white space.
C6_SnippetsBoundedAndMatching ==
    \A l \in SnippetLists(reply) :
        /\ Len(l.snippets) <= 3
        /\ \A i \in 1..Len(l.snippets) :
              /\ \E u \in 1..Len(SplitSentences(l.content)) :
                    /\ Trim(SplitSentences(l.content)[u]) = l.snippets[i]
                    /\ ContainsQuery(SplitSentences(l.content)[u], SearchResultOf(reply).query)
              /\ ~HasEdgeSpace(SearchResultOf(reply).query)
                    => ContainsQuery(l.snippets[i], SearchResultOf(reply).query)

\* a content with four matching units was cut to three snippets
C6_Witness ==
    /\ reply.kind = "search"
    /\ SearchResultOf(reply).query = "LOGIN"
    /\ \E l \in SnippetLists(reply) :
          /\ Len(l.snippets) = 3
          /\ Len(SelectSeq(SplitSentences(l.content),
                           LAMBDA u : ContainsQuery(u, "LOGIN"))) > 3

\* C6 as stated: every returned snippet contains the lower-cased query, also
\* for a query with leading or trailing white space.
C6_EverySnippetContainsQuery ==
    \A l \in SnippetLists(reply) :
        /\ Len(l.snippets) <= 3
        /\ \A i \in 1..Len(l.snippets) :
              ContainsQuery(l.snippets[i], SearchResultOf(reply).query)

\* C7: a search with an empty query is rejected on every entry point: no
\* reply carries a result list for the query "".
C7_EmptyQueryRejected ==
    reply.kind = "search" => SearchResultOf(reply).query # ""

\* the values the category tests of searchKnowledgeBase know
KnownCategories == {"all"} \union {CategoryKeys[k] : k \in DOMAIN CategoryKeys}

\* the hits a search result lists under the key k; a key that is not
\* filled lists none
HitsOf(r, k) == IF k \in DOMAIN r.results THEN r.results[k] ELSE <<>>

\* the two search results list the same hits
SameResults(a, b) ==
    /\ \A k \in DOMAIN CategoryKeys : HitsOf(a, k) = HitsOf(b, k)
    /\ a.totalMatches = b.totalMatches

\* C16: a category that is none of the known values is ignored: the reply
\* of POST /api/search to such a category holds the results of the same
\* search without a category.
C16_UnknownCategoryIsIgnored ==
    [][ \A q \in Queries, c \in Categories \ KnownCategories :
            (ApiSearch(q, c) /\ reply'.status = "200")
                => SameResults(reply'.body,
                               searchKnowledgeBase(knowledgeBase, pdfContents,
                                                   q, Undefined)) ]_vars

-----------------------------------------------------------------------------
(* The documentation server listed in CHATBOT_ALTERNATIVES.md              *)

\* the bound of the documentation-server model: files loaded at startup
MaxDocs == 3

\* the files under DOCS_BASE_PATH: resource id, title (path.basename),
\* content and category (getCategory of the resource id)
DocFiles == {
    [ id |-> "context/docs/SLO Guide.md", title |-> "SLO Guide.md",
      content |-> "Our service level objective is 99.9% availability.",
      category |-> "docs" ],
    [ id |-> "context/templates/slo-template.yaml", title |-> "slo-template.yaml",
      content |-> "slo: 99.9\nsli: latency", category |-> "template" ],
    [ id |-> "README.md", title |-> "README.md",
      content |-> "Monitoring CUJ and SLO health. SLO first!", category |-> "framework" ],
    [ id |-> "context/docs/slo-notes.txt", title |-> "slo-notes.txt",
      content |-> " see the guide. ", category |-> "docs" ],
    [ id |-> "context/knowledge-base/cujs.json", title |-> "cujs.json",
      content |-> "cu login", category |-> "knowledge" ]
}

\* the query argument of search_docs
DocQueries == {"", "SLO", "slo", ".", "(", "cuj?"}

\* the category argument of search_docs
DocCategories == {Undefined, "docs", "reports"}

\* the max_results argument of search_docs
MaxResultsArgs == {Undefined, "1"}

\* max_results || 5
DefaultMaxResults == 5

\* Regular expressions, for the patterns new RegExp(queryLower, 'g') is given
\* here: literal characters, the wildcard "." and the quantifier "?" after an
\* atom; a "(" opens a group that is never closed and a leading "?" has
\* nothing to repeat, and for both the constructor throws a SyntaxError.
RegexValid(pattern) ==
    /\ \A i \in 1..Len(pattern) : CharAt(pattern, i) # "("
    /\ ~StartsWith(pattern, "?")

RECURSIVE RegexAtoms(_, _)
RegexAtoms(pattern, i) ==
    IF i > Len(pattern) THEN <<>>
    ELSE LET opt == i + 1 <= Len(pattern) /\ CharAt(pattern, i + 1) = "?"
         IN  <<[c |-> CharAt(pattern, i), opt |-> opt]>>
               \o RegexAtoms(pattern, IF opt THEN i + 2 ELSE i + 1)

\* The index after the match of atoms k.. that starts at index i of text,
\* 0 when there is none: "." matches any character but a line terminator,
\* "?" is greedy and gives its atom back when the rest does not match.
RECURSIVE RegexMatchFrom(_, _, _, _)
RegexMatchFrom(atoms, k, text, i) ==
    IF k > Len(atoms) THEN i
    ELSE LET a    == atoms[k]
             hit  == /\ i <= Len(text)
                     /\ IF a.c = "." THEN CharAt(text, i) # "\n"
                                     ELSE CharAt(text, i) = a.c
             take == IF hit THEN RegexMatchFrom(atoms, k + 1, text, i + 1) ELSE 0
         IN  IF a.opt /\ take = 0 THEN RegexMatchFrom(atoms, k + 1, text, i) ELSE take

\* (text.match(regex) || []).length with flag g: the matches are counted
\* left to right without overlap; after an empty match the search moves on
\* by one character
RECURSIVE RegexCountFrom(_, _, _)
RegexCountFrom(atoms, text, i) ==
    IF i > Len(text) + 1 THEN 0
    ELSE LET n == RegexMatchFrom(atoms, 1, text, i)
         IN  IF n = 0 THEN RegexCountFrom(atoms, text, i + 1)
             ELSE 1 + RegexCountFrom(atoms, text, IF n > i THEN n ELSE i + 1)

RegexCount(pattern, text) == RegexCountFrom(RegexAtoms(pattern, 1), text, 1)

\* the key terms of searchDocumentation
keyTerms == <<"cuj", "sli", "slo", "observability", "devsecops", "monitoring">>

\* the relevance searchDocumentation computes for one document
Relevance(doc, query) ==
    LET queryLower   == ToLowerCase(query)
        titleLower   == ToLowerCase(doc.title)
        contentLower == ToLowerCase(doc.content)
        boosted      == {t \in 1..Len(keyTerms) :
                            /\ Includes(queryLower, keyTerms[t])
                            /\ Includes(contentLower, keyTerms[t])}
    IN  (IF Includes(titleLower, queryLower) THEN 10 ELSE 0)
          + RegexCount(queryLower, contentLower)
          + 5 * Cardinality(boosted)

\* Relevance over the files and queries of the model, computed once
RelevanceTable ==
    [d \in DocFiles, q \in {x \in DocQueries : RegexValid(ToLowerCase(x))} |-> Relevance(d, q)]

\* if (category && doc.category !== category) continue
InCategory(doc, category) ==
    category = Undefined \/ category = "" \/ doc.category = category

\* the place of a result among the sorted ones: before the first with a
\* smaller relevance, ties kept in order
InsertByRelevanceReversed(sorted, r) ==
    LET before == {i \in 1..Len(sorted) : sorted[i].relevance > r.relevance}
    IN  SubSeq(sorted, 1, Cardinality(before)) \o <<r>>
          \o SubSeq(sorted, Cardinality(before) + 1, Len(sorted))

\* One step of results.sort((a, b) => b.relevance - a.relevance): the next
\* result goes after every sorted one it does not precede, that is after all
\* those of a greater or equal relevance (Array.prototype.sort is stable)
InsertByRelevance(sorted, r) ==
    LET before == {i \in 1..Len(sorted) : sorted[i].relevance >= r.relevance}
    IN  SubSeq(sorted, 1, Cardinality(before)) \o <<r>>
          \o SubSeq(sorted, Cardinality(before) + 1, Len(sorted))

RECURSIVE SortByRelevance(_, _)
SortByRelevance(sorted, rest) ==
    IF rest = <<>> THEN sorted
    ELSE SortByRelevance(InsertByRelevance(sorted, Head(rest)), Tail(rest))

\* the test of searchDocumentation that keeps a result, with >= for >
IsRelevantOrZero(relevance) == relevance >= 0

\* if (relevance > 0) results.push(...)
IsRelevant(relevance) == relevance > 0

\* new RegExp(queryLower, 'g') throws for the first document the loop scores
searchThrows(cache, query, category) ==
    /\ ~RegexValid(ToLowerCase(query))
    /\ \E i \in 1..Len(cache) : InCategory(cache[i], category)

\* searchDocumentation(query, category): the documents of the category in
\* cache order with their relevance, those with relevance > 0, sorted
searchDocumentation(cache, query, category) ==
    LET scored  == [i \in 1..Len(cache) |->
                      [ id |-> cache[i].id, doc |-> cache[i],
                        relevance |-> IF InCategory(cache[i], category)
                                      THEN RelevanceTable[cache[i], query] ELSE 0,
                        skipped |-> ~InCategory(cache[i], category) ]]
        results == SelectSeq(scored, LAMBDA r : ~r.skipped /\ IsRelevant(r.relevance))
    IN  SortByRelevance(<<>>, [i \in 1..Len(results) |->
                                [ id |-> results[i].id, doc |-> results[i].doc,
                                  relevance |-> results[i].relevance ]])

\* extractSnippets(content, query): split, filter, slice, trim, drop the empty
extractSnippets(content, query) ==
    LET queryLower == ToLowerCase(query)
        relevant   == SelectSeq(SplitSentences(content),
                          LAMBDA sentence : Includes(ToLowerCase(sentence), queryLower))
        kept       == Slice(relevant, MaxSnippets)
        trimmed    == [i \in 1..Len(kept) |-> Trim(kept[i])]
    IN  SelectSeq(trimmed, LAMBDA sentence : Len(sentence) > 0)

NoToolReply == [kind |-> "none", query |-> "", results |-> <<>>, error |-> ""]

ToolError(query, message) ==
    [kind |-> "error", query |-> query, results |-> <<>>, error |-> message]

\* loadFile(filePath, resourceId) during loadDocumentation, for a file that
\* is read: docCache.set(resourceId, ...)
LoadFile(file) ==
    /\ ~docsServing
    /\ Len(docCache) < MaxDocs
    /\ docCache' =
         IF \E i \in 1..Len(docCache) : docCache[i].id = file.id
         THEN [i \in 1..Len(docCache) |->
                  IF docCache[i].id = file.id THEN file ELSE docCache[i]]
         ELSE Append(docCache, file)
    /\ UNCHANGED <<docsServing, toolReply, notDocs>>

\* main: loadDocumentation has returned, server.connect(transport)
Connect ==
    /\ ~docsServing
    /\ docsServing' = TRUE
    /\ UNCHANGED <<docCache, toolReply, notDocs>>

\* the tool search_docs of the CallToolRequest handler
SearchDocs(queryArg, category, maxArg) ==
    /\ docsServing
    /\ LET query      == IF queryArg = Undefined THEN "" ELSE queryArg
           maxResults == IF maxArg = Undefined THEN DefaultMaxResults ELSE 1
           results    == Slice(searchDocumentation(docCache, query, category), maxResults)
       IN  toolReply' =
             IF query = "" THEN ToolError(query, "Search query is required")
             ELSE IF searchThrows(docCache, query, category)
             THEN ToolError(query, "Invalid regular expression")
             ELSE IF Len(results) = 0
             THEN [kind |-> "notFound", query |-> query, results |-> <<>>, error |-> ""]
             ELSE [ kind |-> "found", query |-> query, error |-> "",
                    results |-> [i \in 1..Len(results) |->
                        [ id |-> results[i].id,
                          title |-> results[i].doc.title,
                          category |-> results[i].doc.category,
                          relevance |-> results[i].relevance,
                          snippets |-> extractSnippets(results[i].doc.content, query) ]] ]
    /\ UNCHANGED <<docCache, docsServing, notDocs>>

InitDocs ==
    /\ docCache = <<>>
    /\ docsServing = FALSE
    /\ toolReply = NoToolReply

NextDocs ==
    \/ \E f \in DocFiles : LoadFile(f)
    \/ Connect
    \/ \E q \in DocQueries \union {Undefined}, c \in DocCategories, m \in MaxResultsArgs :
           SearchDocs(q, c, m)

-----------------------------------------------------------------------------
(* The AI chat server (ai-chat-server.js): AIService and the chat router.  *)
(* Its DevSecOpsKnowledgeBase keeps the upload route and processPDF of      *)
(* server.js ("keep all existing methods from the original server"), so    *)
(* pdfContents and knowledgeBase stand for the store of whichever server   *)
(* runs, and UploadOk is the upload of both.                               *)

\* the value JavaScript calls null
Null == "<null>"

\* typeof v === 'string'
IsString(v) == v \notin {Undefined, Null}

\* the sockets that send chat messages
Sockets == {"s1"}

\* the message field of a chat_message (Undefined: the field is missing)
AiMessages == {"What is a CUJ?", "slo", Undefined}

\* the type field of a chat_message
AiTypes == {"ai_chat", "search", "cujs", "help"}

\* the values of Math.floor(Math.random() * responses.length)
RandomChoices == 0..3

\* the files the upload route of the AI chat server is given
AiFiles == {f \in Files : f.filename = "2-slo.pdf"}

\* the tree under the context directory, in the order the recursive loader
\* walks it: a directory stands before its entries.  dir is the directory
\* that holds the entry, relative to __dirname
ContextDir == <<
    [dir |-> "",              name |-> "context",          isDirectory |-> TRUE,
     content |-> ""],
    [dir |-> "context",       name |-> "diagram.png",      isDirectory |-> FALSE,
     content |-> "PNG"],
    [dir |-> "context",       name |-> "notes",            isDirectory |-> TRUE,
     content |-> ""],
    [dir |-> "context/notes", name |-> "slo.md",           isDirectory |-> FALSE,
     content |-> "Alert on burn rate"],
    [dir |-> "context",       name |-> "cba-framework.md", isDirectory |-> FALSE,
     content |-> "Metrics first. Track every cuj"] >>

\* path.join(dir, entry.name), relative to __dirname
FullPath(entry) ==
    IF entry.dir = "" THEN entry.name ELSE entry.dir \o "/" \o entry.name

\* the entry lies in the directory d or below it
Below(entry, d) ==
    \/ entry.dir = FullPath(d)
    \/ StartsWith(entry.dir, FullPath(d) \o "/")

\* the number of entries the walk has passed once it leaves the directory
\* at position i without reading it
PastDirectory(i) ==
    IF \E j \in (i + 1)..Len(ContextDir) : ~Below(ContextDir[j], ContextDir[i])
    THEN (CHOOSE j \in (i + 1)..Len(ContextDir) :
              /\ ~Below(ContextDir[j], ContextDir[i])
              /\ \A k \in (i + 1)..(j - 1) : Below(ContextDir[k], ContextDir[i])) - 1
    ELSE Len(ContextDir)

\* what a provider call can end with.  fetch: the promise of fetch rejects
\* (no connection) or resolves; json: response.json() parses the body;
\* hasList: the body holds the array choices (OpenAI) or content
\* (Anthropic); items: that array, each item with the text the code reads
\* (choices[i].message.content, content[i].text).  The code never reads
\* response.ok or response.status.
NetworkFailure ==
    [fetch |-> "rejected", status |-> "none", json |-> FALSE, hasList |-> FALSE, items |-> <<>>]

\* 401, 429, 500: a JSON body {error: {...}}
ErrorStatus ==
    [fetch |-> "resolved", status |-> "429", json |-> TRUE, hasList |-> FALSE, items |-> <<>>]

\* a gateway's HTML error page
NotJson ==
    [fetch |-> "resolved", status |-> "502", json |-> FALSE, hasList |-> FALSE, items |-> <<>>]

\* {choices: []}
EmptyList ==
    [fetch |-> "resolved", status |-> "200", json |-> TRUE, hasList |-> TRUE, items |-> <<>>]

\* {choices: [{message: {role: 'assistant'}}]}: no content text
NoText ==
    [fetch |-> "resolved", status |-> "200", json |-> TRUE, hasList |-> TRUE,
     items |-> <<[text |-> Undefined]>>]

\* {choices: [{message: {content: null, tool_calls: [...]}}]}
NullText ==
    [fetch |-> "resolved", status |-> "200", json |-> TRUE, hasList |-> TRUE,
     items |-> <<[text |-> Null]>>]

Completion ==
    [fetch |-> "resolved", status |-> "200", json |-> TRUE, hasList |-> TRUE,
     items |-> <<[text |-> "Start from your users."]>>]

ProviderAnswers ==
    {NetworkFailure, ErrorStatus, NotJson, EmptyList, NoText, NullText, Completion}

\* no answer has arrived
NoAnswer ==
    [fetch |-> "pending", status |-> "none", json |-> FALSE, hasList |-> FALSE, items |-> <<>>]

\* how a call ends: it returns a value or it throws
Returned(v) == [threw |-> FALSE, value |-> v, error |-> ""]

Thrown(e) == [threw |-> TRUE, value |-> Undefined, error |-> e]

\* getAvailableProvider testing anthropic before openai
getAvailableProviderAnthropicFirst(p) ==
    IF p.anthropic THEN "anthropic"
    ELSE IF p.openai THEN "openai"
    ELSE "local"

\* getAvailableProvider()
getAvailableProvider(p) ==
    IF p.openai THEN "openai"
    ELSE IF p.anthropic THEN "anthropic"
    ELSE "local"

\* callOpenAI after its two awaits: fetch, response.json(), then
\* data.choices[0].message.content
callOpenAI(answer) ==
    IF answer.fetch = "rejected" THEN Thrown("fetch failed")
    ELSE IF ~answer.json THEN Thrown("Unexpected token < in JSON at position 0")
    ELSE IF ~answer.hasList
         THEN Thrown("Cannot read properties of undefined (reading '0')")
    ELSE IF Len(answer.items) = 0
         THEN Thrown("Cannot read properties of undefined (reading 'message')")
    ELSE Returned(answer.items[1].text)

\* callAnthropic after its two awaits: fetch, response.json(), then
\* data.content[0].text
callAnthropic(answer) ==
    IF answer.fetch = "rejected" THEN Thrown("fetch failed")
    ELSE IF ~answer.json THEN Thrown("Unexpected token < in JSON at position 0")
    ELSE IF ~answer.hasList
         THEN Thrown("Cannot read properties of undefined (reading '0')")
    ELSE IF Len(answer.items) = 0
         THEN Thrown("Cannot read properties of undefined (reading 'text')")
    ELSE Returned(answer.items[1].text)

IncludesAny(s, qs) == \E q \in qs : Includes(s, q)

\* analyzeIntent testing the keywords of slo before those of sli
analyzeIntentSloFirst(messageLower) ==
    [ primary |->
        IF IncludesAny(messageLower, {"cuj", "critical user journey", "user journey"})
        THEN "cuj"
        ELSE IF IncludesAny(messageLower, {"slo", "service level objective", "objective"})
        THEN "slo"
        ELSE IF IncludesAny(messageLower, {"sli", "service level indicator", "indicator"})
        THEN "sli"
        ELSE IF IncludesAny(messageLower, {"observability", "monitoring", "metrics"})
        THEN "observability"
        ELSE IF IncludesAny(messageLower, {"security", "devsecops", "vulnerability"})
        THEN "security"
        ELSE IF IncludesAny(messageLower, {"implement", "setup", "configure"})
        THEN "implementation"
        ELSE IF IncludesAny(messageLower, {"difference", "compare", "vs"})
        THEN "comparison"
        ELSE IF IncludesAny(messageLower, {"problem", "issue", "troubleshoot", "debug"})
        THEN "troubleshooting"
        ELSE "general",
      questionType |->
        IF StartsWith(messageLower, "how") \/ IncludesAny(messageLower, {"how do", "how to"})
        THEN "how"
        ELSE IF StartsWith(messageLower, "what")
                \/ IncludesAny(messageLower, {"what is", "what are"})
        THEN "what"
        ELSE IF StartsWith(messageLower, "why") \/ Includes(messageLower, "why should")
        THEN "why"
        ELSE IF StartsWith(messageLower, "when") \/ Includes(messageLower, "when to")
        THEN "when"
        ELSE IF IncludesAny(messageLower, {"best practice", "recommend"})
        THEN "recommendation"
        ELSE "general",
      specificity |->
        IF IncludesAny(messageLower, {"start", "begin", "getting started"})
        THEN "beginner"
        ELSE IF IncludesAny(messageLower, {"advanced", "complex", "detailed"})
        THEN "advanced"
        ELSE IF IncludesAny(messageLower, {"example", "sample"})
        THEN "example"
        ELSE "general" ]

\* analyzeIntent(messageLower): three decision lists
analyzeIntent(messageLower) ==
    [ primary |->
        IF IncludesAny(messageLower, {"cuj", "critical user journey", "user journey"})
        THEN "cuj"
        ELSE IF IncludesAny(messageLower, {"sli", "service level indicator", "indicator"})
        THEN "sli"
        ELSE IF IncludesAny(messageLower, {"slo", "service level objective", "objective"})
        THEN "slo"
        ELSE IF IncludesAny(messageLower, {"observability", "monitoring", "metrics"})
        THEN "observability"
        ELSE IF IncludesAny(messageLower, {"security", "devsecops", "vulnerability"})
        THEN "security"
        ELSE IF IncludesAny(messageLower, {"implement", "setup", "configure"})
        THEN "implementation"
        ELSE IF IncludesAny(messageLower, {"difference", "compare", "vs"})
        THEN "comparison"
        ELSE IF IncludesAny(messageLower, {"problem", "issue", "troubleshoot", "debug"})
        THEN "troubleshooting"
        ELSE "general",
      questionType |->
        IF StartsWith(messageLower, "how") \/ IncludesAny(messageLower, {"how do", "how to"})
        THEN "how"
        ELSE IF StartsWith(messageLower, "what")
                \/ IncludesAny(messageLower, {"what is", "what are"})
        THEN "what"
        ELSE IF StartsWith(messageLower, "why") \/ Includes(messageLower, "why should")
        THEN "why"
        ELSE IF StartsWith(messageLower, "when") \/ Includes(messageLower, "when to")
        THEN "when"
        ELSE IF IncludesAny(messageLower, {"best practice", "recommend"})
        THEN "recommendation"
        ELSE "general",
      specificity |->
        IF IncludesAny(messageLower, {"start", "begin", "getting started"})
        THEN "beginner"
        ELSE IF IncludesAny(messageLower, {"advanced", "complex", "detailed"})
        THEN "advanced"
        ELSE IF IncludesAny(messageLower, {"example", "sample"})
        THEN "example"
        ELSE "general" ]

\* extractContextInfo(contextFiles, knowledgeBase): the sizes the templates
\* interpolate
extractContextInfo(files, kb) ==
    [ currentKnowledge |-> [ cujs |-> Len(kb.cujs), slis |-> Len(kb.slis),
                             slos |-> Len(kb.slos),
                             bestPractices |-> Len(kb.bestPractices) ],
      contextFiles |-> Len(files) ]

(* The templates.  Each text is cut to its opening sentence and to the     *)
(* sentences that interpolate a value; the cuts keep the texts distinct.   *)

\* generateCUJResponse: responses[Math.floor(Math.random() * 4)]
generateCUJResponse(rnd) ==
    << "Critical User Journeys (CUJs) are end-to-end workflows that represent how users interact with your system.",
       "When defining CUJs, start by identifying your customers (end users, other apps, other teams).",
       "A good CUJ should focus on business value delivery.",
       "Based on the CBA framework, CUJs should drive your SLI/SLO strategy." >>[rnd + 1]

generateSLIResponse(rnd) ==
    << "Service Level Indicators (SLIs) are specific metrics that reflect the health of your Critical User Journeys.",
       "Good SLIs focus on what matters to users: availability, latency, error rates, and throughput.",
       "When choosing SLIs, ask: 'What would users notice if this went wrong?'",
       "SLIs should be based on your internal deliverables." >>[rnd + 1]

generateSLOResponse(rnd) ==
    << "Service Level Objectives (SLOs) are targets for your SLIs.",
       "Start with achievable SLO targets based on current performance, then iterate.",
       "SLOs should align with business requirements.",
       "Error budgets from SLOs help make data-driven decisions about when to focus on reliability vs new features." >>[rnd + 1]

generateObservabilityResponse(rnd) ==
    << "The CBA framework emphasizes shifting from logs to metrics for proactive monitoring.",
       "Observability maturity progresses through 4 levels.",
       "Focus on application-level observability, not just infrastructure.",
       "Good observability combines metrics (Obstack), logs (Observe), and alerts (PagerDuty)." >>[rnd + 1]

generateSecurityResponse(rnd) ==
    << "DevSecOps is about shifting security left.",
       "Key practices include: automated security scanning in CI/CD, threat modeling during design, secure coding practices, and runtime protection.",
       "Security SLIs might include: vulnerability remediation time, security scan coverage, failed authentication rates, or security incident response time.",
       "Remember: security isn't just about tools, it's about culture." >>[rnd + 1]

\* generateAdvancedCUJResponse without the templates of the question types
generateAdvancedCUJResponseGenericOnly(intent, contextInfo, rnd) ==
    generateCUJResponse(rnd)


generateAdvancedCUJResponse(intent, contextInfo, rnd) ==
    IF intent.questionType = "how" /\ intent.specificity = "beginner"
    THEN "Great question! Let me walk you through getting started with Critical User Journeys (CUJs). **Current Status:** You have "
         \o ToString(contextInfo.currentKnowledge.cujs)
         \o " CUJs in your knowledge base. Would you like me to help you define a specific CUJ for your application?"
    ELSE IF intent.questionType = "what"
    THEN "Critical User Journeys (CUJs) are the backbone of effective observability strategy. They drive your SLI/SLO strategy (you currently have "
         \o ToString(contextInfo.currentKnowledge.slis) \o " SLIs and "
         \o ToString(contextInfo.currentKnowledge.slos) \o " SLOs)"
    ELSE generateCUJResponse(rnd)

generateAdvancedSLIResponse(intent, contextInfo, rnd) ==
    IF intent.questionType = "how" /\ intent.specificity = "beginner"
    THEN "Let me guide you through creating effective Service Level Indicators (SLIs). You currently have "
         \o ToString(contextInfo.currentKnowledge.cujs) \o " CUJs defined."
    ELSE IF intent.questionType = "what"
    THEN "Service Level Indicators (SLIs) are the quantitative measures that tell you how well your system is performing from a user perspective. You have "
         \o ToString(contextInfo.currentKnowledge.slis) \o " SLIs defined."
    ELSE generateSLIResponse(rnd)

generateAdvancedSLOResponse(intent, contextInfo, rnd) ==
    IF intent.questionType = "how" /\ intent.specificity = "beginner"
    THEN "Let me help you set up Service Level Objectives (SLOs) that actually work. Look at your existing SLIs (you have "
         \o ToString(contextInfo.currentKnowledge.slis) \o " defined)"
    ELSE IF intent.questionType = "what"
    THEN "Service Level Objectives (SLOs) are your reliability targets. You have "
         \o ToString(contextInfo.currentKnowledge.slos) \o " SLOs defined."
    ELSE generateSLOResponse(rnd)

generateAdvancedObservabilityResponse(intent, contextInfo, rnd) ==
    IF intent.questionType = "how" /\ intent.specificity = "beginner"
    THEN "Perfect! Let me guide you through starting with observability using the CBA framework."
    ELSE IF intent.questionType = "what"
    THEN "Observability is your ability to understand what's happening inside your systems by examining their outputs."
    ELSE generateObservabilityResponse(rnd)

generateAdvancedSecurityResponse(intent, contextInfo, rnd) ==
    IF intent.questionType = "how" /\ intent.specificity = "beginner"
    THEN "Great question! Let me help you get started with DevSecOps using a practical approach."
    ELSE generateSecurityResponse(rnd)

generateImplementationResponse(intent, contextInfo) ==
    "I'd be happy to help you implement this! Let me provide a practical approach."

generateComparisonResponse(message, intent, contextInfo) ==
    LET messageLower == ToLowerCase(message)
    IN  IF Includes(messageLower, "sli") /\ Includes(messageLower, "slo")
        THEN "Great question! Here's the key difference between SLIs and SLOs: SLIs defined: "
             \o ToString(contextInfo.currentKnowledge.slis) \o " SLOs defined: "
             \o ToString(contextInfo.currentKnowledge.slos)
        ELSE IF Includes(messageLower, "observability") /\ Includes(messageLower, "monitoring")
        THEN "Excellent question! Here's how observability and monitoring differ:"
        ELSE "I'd be happy to help compare those concepts! Could you be more specific about what you'd like me to compare?"

generateTroubleshootingResponse(intent, contextInfo) ==
    "I'm here to help troubleshoot! Let me guide you through a systematic approach."

generateAdvancedGeneralResponse(intent, contextInfo) ==
    LET k == contextInfo.currentKnowledge
    IN  IF intent.specificity = "beginner"
        THEN "Welcome to DevSecOps observability! I'm here to help you get started. Knowledge base entries: "
             \o ToString(k.cujs + k.slis + k.slos + k.bestPractices)
             \o " Context files loaded: " \o ToString(contextInfo.contextFiles)
        ELSE "I'm your DevSecOps SME assistant, specialized in observability, CUJs, SLIs, and SLOs using the CBA framework. "
             \o ToString(k.cujs) \o " CUJs, " \o ToString(k.slis) \o " SLIs, "
             \o ToString(k.slos) \o " SLOs defined "
             \o ToString(contextInfo.contextFiles)
             \o " context files loaded with your specific knowledge"

\* the messages generateLocalResponse is called with directly
LocalMessages == {
    "What is a CUJ?", "slo tips", "sli vs slo", "How do I start with metrics",
    "show me a sample", "Why should we debug", "recommend a detailed objective",
    "when to configure security", "hello", "Somewhat advanced example" }

\* analyzeIntent(message.toLowerCase()) of the messages the model sends,
\* computed once
IntentTable ==
    [m \in {x \in AiMessages \union LocalMessages : IsString(x)} |->
        analyzeIntent(ToLowerCase(m))]

IntentOf(message) ==
    IF message \in DOMAIN IntentTable THEN IntentTable[message]
    ELSE analyzeIntent(ToLowerCase(message))

\* the switch (intent.primary) of generateLocalResponse
SwitchPrimary(message, intent, contextInfo, rnd) ==
    IF intent.primary = "cuj"
    THEN generateAdvancedCUJResponse(intent, contextInfo, rnd)
    ELSE IF intent.primary = "sli"
    THEN generateAdvancedSLIResponse(intent, contextInfo, rnd)
    ELSE IF intent.primary = "slo"
    THEN generateAdvancedSLOResponse(intent, contextInfo, rnd)
    ELSE IF intent.primary = "observability"
    THEN generateAdvancedObservabilityResponse(intent, contextInfo, rnd)
    ELSE IF intent.primary = "security"
    THEN generateAdvancedSecurityResponse(intent, contextInfo, rnd)
    ELSE IF intent.primary = "implementation"
    THEN generateImplementationResponse(intent, contextInfo)
    ELSE IF intent.primary = "comparison"
    THEN generateComparisonResponse(message, intent, contextInfo)
    ELSE IF intent.primary = "troubleshooting"
    THEN generateTroubleshootingResponse(intent, contextInfo)
    ELSE generateAdvancedGeneralResponse(intent, contextInfo)

\* generateLocalResponse(message, context): message.toLowerCase() throws a
\* TypeError for a message that is no string; rnd is the value Math.random
\* yields where a template list is drawn from
generateLocalResponse(message, context, rnd) ==
    IF ~IsString(message)
    THEN Thrown("Cannot read properties of undefined (reading 'toLowerCase')")
    ELSE LET intent      == IntentOf(message)
             contextInfo == extractContextInfo(context.contextFiles, context.knowledgeBase)
         IN  Returned(SwitchPrimary(message, intent, contextInfo, rnd))

\* the call the switch of generateResponse makes
callSelected(provider, message, context, answer, rnd) ==
    IF provider = "openai" THEN callOpenAI(answer)
    ELSE IF provider = "anthropic" THEN callAnthropic(answer)
    ELSE generateLocalResponse(message, context, rnd)

\* generateResponse whose catch block rethrows
generateResponseRethrow(provider, message, context, answer, rnd) ==
    LET tried == callSelected(provider, message, context, answer, rnd)
        remote == IF provider = "local" THEN 0 ELSE 1
    IN  [ outcome |-> tried, providerAttempts |-> remote, localAttempts |-> 1 - remote ]

\* generateResponse(message, context): the switch inside try, and the catch
\* block that calls generateLocalResponse whatever the switch had called
generateResponse(provider, message, context, answer, rnd) ==
    LET tried == callSelected(provider, message, context, answer, rnd)
        remote == IF provider = "local" THEN 0 ELSE 1
    IN  IF tried.threw
        THEN [ outcome |-> generateLocalResponse(message, context, rnd),
               providerAttempts |-> remote,
               localAttempts |-> (1 - remote) + 1 ]
        ELSE [ outcome |-> tried, providerAttempts |-> remote,
               localAttempts |-> 1 - remote ]

\* String.prototype.endsWith
EndsWith(s, q) == Len(q) <= Len(s) /\ SubSeq(s, Len(s) - Len(q) + 1, Len(s)) = q

\* isTextFile(filename)
isTextFile(filename) ==
    \E ext \in {".md", ".txt", ".json", ".yaml", ".yml", ".js", ".py", ".sh", ".sql"} :
        EndsWith(ToLowerCase(filename), ext)

getFileType(filename) ==
    IF EndsWith(filename, ".md") THEN "markdown"
    ELSE IF EndsWith(filename, ".json") THEN "json"
    ELSE IF EndsWith(filename, ".yaml") \/ EndsWith(filename, ".yml") THEN "yaml"
    ELSE "text"

\* searchKnowledgeBase(query) of ai-chat-server.js with the default category
\* 'all': the four concept lists and the context files
ContextMatches(files, query) ==
    LET queryLower == ToLowerCase(query)
        hits == SelectSeq(files,
                    LAMBDA e : \/ Includes(ToLowerCase(e.filename), queryLower)
                               \/ Includes(ToLowerCase(e.content), queryLower))
    IN  [i \in 1..Len(hits) |->
            [ filename |-> hits[i].filename,
              type |-> hits[i].type,
              relevantSnippets |-> extractRelevantSnippets(hits[i].content, query) ]]

aiSearchKnowledgeBase(kb, files, query) ==
    LET queryLower == ToLowerCase(query)
        keys       == ConceptKeys \union {"contextMatches"}
        results    == [k \in keys |->
                          IF k = "contextMatches"
                          THEN ContextMatches(files, query)
                          ELSE FilterConcepts(kb[k], queryLower)]
    IN  [ query |-> query,
          category |-> "all",
          results |-> results,
          totalMatches |-> SumLengths(results, keys) ]

\* what the handler emits
ChatResponseEvent(type, message, body) ==
    [event |-> "chat_response", type |-> type, message |-> message,
     body |-> body, error |-> ""]

ChatErrorEvent(error) ==
    [event |-> "chat_error", type |-> "", message |-> Undefined,
     body |-> NoBody, error |-> error]

\* EmitOutcome reporting a response that is no string as an error
EmitOutcomeStrict(outcome) ==
    IF outcome.threw \/ ~IsString(outcome.value)
    THEN ChatErrorEvent(IF outcome.threw THEN outcome.error ELSE "provider error")
    ELSE ChatResponseEvent("ai_text", outcome.value, NoBody)

\* socket.emit('chat_response', {message: response, type: typeof response
\* === 'string' ? 'ai_text' : 'structured'}) or, from the catch block,
\* socket.emit('chat_error', {error: error.message})
EmitOutcome(outcome) ==
    IF outcome.threw THEN ChatErrorEvent(outcome.error)
    ELSE ChatResponseEvent(IF IsString(outcome.value) THEN "ai_text" ELSE "structured",
                           outcome.value, NoBody)

\* is the message routed to generateAIResponse?
IsAiRoute(type) == type \notin {"search", "cujs", "slis", "slos"}

\* the structured responses of the handler
StructuredResponse(kb, files, message, type) ==
    IF type = "search"
    THEN aiSearchKnowledgeBase(kb, files, message)
    ELSE [concepts |-> kb[type], count |-> Len(kb[type])]

IdleChat ==
    [ phase |-> "idle", message |-> Undefined, type |-> "", contextFiles |-> <<>>,
      answer |-> NoAnswer, providerAttempts |-> 0, localAttempts |-> 0,
      emitted |-> <<>> ]

\* the handler of the socket is at rest: it has emitted, or it was rejected
AtRest(c) == c.phase \in {"idle", "done", "rejected"}

\* loadDirectoryRecursively: the next entry is a text file that is read
LoadContextFile ==
    /\ contextNext < Len(ContextDir)
    /\ LET entry == ContextDir[contextNext + 1]
       IN  /\ ~entry.isDirectory
           /\ isTextFile(entry.name)
           /\ contextFiles' = MapSet(contextFiles, FullPath(entry),
                                  [ filename |-> FullPath(entry),
                                    content |-> entry.content,
                                    type |-> getFileType(entry.name) ])
    /\ contextNext' = contextNext + 1
    /\ UNCHANGED <<providers, selectedProvider, contextLog, chats, notChat>>

\* a loader without the inner try block: a failed read ends the walk
FailContextFileAborting ==
    /\ contextNext < Len(ContextDir)
    /\ LET entry == ContextDir[contextNext + 1]
       IN  /\ ~entry.isDirectory
           /\ isTextFile(entry.name)
           /\ contextLog' = Append(contextLog, entry.dir)
    /\ contextNext' = Len(ContextDir)
    /\ UNCHANGED <<providers, selectedProvider, contextFiles, chats, notChat>>

\* loadDirectoryRecursively: fs.readFile of the next text file rejects;
\* the inner catch logs the path and the for loop goes on
FailContextFile ==
    /\ contextNext < Len(ContextDir)
    /\ LET entry == ContextDir[contextNext + 1]
       IN  /\ ~entry.isDirectory
           /\ isTextFile(entry.name)
           /\ contextLog' = Append(contextLog, FullPath(entry))
    /\ contextNext' = contextNext + 1
    /\ UNCHANGED <<providers, selectedProvider, contextFiles, chats, notChat>>

\* loadDirectoryRecursively: the next entry is a file that is no text file;
\* neither branch of the if is taken
SkipContextEntry ==
    /\ contextNext < Len(ContextDir)
    /\ LET entry == ContextDir[contextNext + 1]
       IN  /\ ~entry.isDirectory
           /\ ~isTextFile(entry.name)
    /\ contextNext' = contextNext + 1
    /\ UNCHANGED <<providers, selectedProvider, contextFiles, contextLog, chats, notChat>>

\* loadDirectoryRecursively(dir): fs.readdir resolves, the loop over the
\* entries of the directory begins
EnterDirectory ==
    /\ contextNext < Len(ContextDir)
    /\ ContextDir[contextNext + 1].isDirectory
    /\ contextNext' = contextNext + 1
    /\ UNCHANGED <<providers, selectedProvider, contextFiles, contextLog, chats, notChat>>

\* loadDirectoryRecursively(dir): fs.readdir rejects; the outer catch of
\* this call logs the directory and the caller's loop goes on behind it
FailDirectory ==
    /\ contextNext < Len(ContextDir)
    /\ ContextDir[contextNext + 1].isDirectory
    /\ contextLog' = Append(contextLog, FullPath(ContextDir[contextNext + 1]))
    /\ contextNext' = PastDirectory(contextNext + 1)
    /\ UNCHANGED <<providers, selectedProvider, contextFiles, chats, notChat>>

\* socket.on('chat_message') without a data object: the destructuring
\* stands before the try block, the async handler rejects, nothing is emitted
ReceiveNoData(s) ==
    /\ AtRest(chats[s])
    /\ chats' = [chats EXCEPT ![s] = [IdleChat EXCEPT !.phase = "rejected"]]
    /\ UNCHANGED <<providers, selectedProvider, contextFiles, contextNext, contextLog, notChat>>

\* socket.on('chat_message') for the types search, cujs, slis, slos: the
\* handler runs to its emit without an await
ReceiveStructured(s, message, type) ==
    /\ AtRest(chats[s])
    /\ ~IsAiRoute(type)
    /\ chats' = [chats EXCEPT ![s] =
          [ IdleChat EXCEPT
              !.phase = "done", !.message = message, !.type = type,
              !.emitted =
                 << IF type = "search" /\ ~IsString(message)
                    THEN ChatErrorEvent("Cannot read properties of undefined (reading 'toLowerCase')")
                    ELSE ChatResponseEvent("structured", Undefined,
                             StructuredResponse(knowledgeBase, contextFiles, message, type)) >> ]]
    /\ UNCHANGED <<providers, selectedProvider, contextFiles, contextNext, contextLog, notChat>>

\* socket.on('chat_message') for the other types with the provider local:
\* generateAIResponse and generateResponse run to the emit with no timer or
\* input in between
ReceiveLocal(s, message, type, rnd) ==
    /\ AtRest(chats[s])
    /\ IsAiRoute(type)
    /\ selectedProvider = "local"
    /\ LET context == [knowledgeBase |-> knowledgeBase, contextFiles |-> contextFiles]
           r == generateResponse(selectedProvider, message, context, NoAnswer, rnd)
       IN  chats' = [chats EXCEPT ![s] =
             [ IdleChat EXCEPT
                 !.phase = "done", !.message = message, !.type = type,
                 !.contextFiles = contextFiles,
                 !.providerAttempts = r.providerAttempts,
                 !.localAttempts = r.localAttempts,
                 !.emitted = <<EmitOutcome(r.outcome)>> ]]
    /\ UNCHANGED <<providers, selectedProvider, contextFiles, contextNext, contextLog, notChat>>

\* socket.on('chat_message') for the other types with a remote provider:
\* generateAIResponse snapshots the context files, callOpenAI or
\* callAnthropic sends the request and the handler is suspended at
\* await fetch(...), which is given no signal and no timer
ReceiveRemote(s, message, type) ==
    /\ AtRest(chats[s])
    /\ IsAiRoute(type)
    /\ selectedProvider # "local"
    /\ chats' = [chats EXCEPT ![s] =
          [ IdleChat EXCEPT
              !.phase = "awaiting", !.message = message, !.type = type,
              !.contextFiles = contextFiles, !.providerAttempts = 1 ]]
    /\ UNCHANGED <<providers, selectedProvider, contextFiles, contextNext, contextLog, notChat>>

\* the provider ends the call: the promise of fetch (and of response.json())
\* settles.  Nothing in the program makes this step happen.
ProviderAnswer(s, answer) ==
    /\ chats[s].phase = "awaiting"
    /\ chats' = [chats EXCEPT ![s].phase = "answered", ![s].answer = answer]
    /\ UNCHANGED <<providers, selectedProvider, contextFiles, contextNext, contextLog, notChat>>

\* a handler that gives up the remote provider once a call to it has failed
ResumeGivingUpProvider(s, rnd) ==
    /\ chats[s].phase = "answered"
    /\ LET c == chats[s]
           context == [knowledgeBase |-> knowledgeBase, contextFiles |-> c.contextFiles]
           r == generateResponse(selectedProvider, c.message, context, c.answer, rnd)
       IN  /\ chats' = [chats EXCEPT ![s] =
                [ c EXCEPT !.phase = "done",
                           !.providerAttempts = r.providerAttempts,
                           !.localAttempts = r.localAttempts,
                           !.emitted = Append(c.emitted, EmitOutcome(r.outcome)) ]]
           /\ selectedProvider' = IF r.localAttempts > 0 THEN "local" ELSE selectedProvider
    /\ UNCHANGED <<providers, contextFiles, contextNext, contextLog, notChat>>


\* the event loop resumes the handler: callOpenAI or callAnthropic returns
\* or throws, generateResponse falls back, the handler emits.  context holds
\* the snapshot of the context files and a reference to the knowledge base
Resume(s, rnd) ==
    /\ chats[s].phase = "answered"
    /\ LET c == chats[s]
           context == [knowledgeBase |-> knowledgeBase, contextFiles |-> c.contextFiles]
           r == generateResponse(selectedProvider, c.message, context, c.answer, rnd)
       IN  chats' = [chats EXCEPT ![s] =
             [ c EXCEPT !.phase = "done",
                        !.providerAttempts = r.providerAttempts,
                        !.localAttempts = r.localAttempts,
                        !.emitted = Append(c.emitted, EmitOutcome(r.outcome)) ]]
    /\ UNCHANGED <<providers, selectedProvider, contextFiles, contextNext, contextLog, notChat>>

\* new AIService() and new DevSecOpsKnowledgeBase(): the provider is chosen
\* from the keys of the environment, loadContextFiles() is started and not
\* awaited
InitChat ==
    /\ providers \in [openai : BOOLEAN, anthropic : BOOLEAN, local : {TRUE}]
    /\ selectedProvider = getAvailableProvider(providers)
    /\ contextFiles = <<>>
    /\ contextNext = 0
    /\ contextLog = <<>>
    /\ chats = [s \in Sockets |-> IdleChat]

NextChat ==
    \/ \E f \in AiFiles : UploadOk(f.filename, f.text)
    \/ LoadContextFile
    \/ FailContextFile
    \/ SkipContextEntry
    \/ EnterDirectory
    \/ FailDirectory
    \/ \E s \in Sockets : ReceiveNoData(s)
    \/ \E s \in Sockets, m \in AiMessages, t \in AiTypes : ReceiveStructured(s, m, t)
    \/ \E s \in Sockets, m \in AiMessages, t \in AiTypes, rnd \in RandomChoices :
           ReceiveLocal(s, m, t, rnd)
    \/ \E s \in Sockets, m \in AiMessages, t \in AiTypes : ReceiveRemote(s, m, t)
    \/ \E s \in Sockets, a \in ProviderAnswers : ProviderAnswer(s, a)
    \/ \E s \in Sockets, rnd \in RandomChoices : Resume(s, rnd)

-----------------------------------------------------------------------------
(* The local responder of the AI chat server called on its own:            *)
(* generateLocalResponse(message, context) with the concept sets and       *)
(* context files of the context argument drawn from small sets.            *)

\* the context argument: each concept set and the context files hold no
\* entry or one
LocalContexts ==
    [ knowledgeBase :
        [ cujs : {<<>>, <<"CUJ: login">>},
          slis : {<<>>, <<"sli: latency">>},
          slos : {<<>>, <<"slo: 99.9">>, <<"slo: 99.5">>},
          bestPractices : {<<>>} ],
      contextFiles :
        { <<>>,
          << [ filename |-> "context/cba-framework.md",
               content |-> "Metrics first. Track every cuj",
               type |-> "markdown" ] >> } ]

NoSynthesis ==
    [ message |-> Undefined,
      context |-> [knowledgeBase |-> EmptyKnowledgeBase, contextFiles |-> <<>>],
      intent |-> [primary |-> "", questionType |-> "", specificity |-> ""],
      outcome |-> Returned(Undefined) ]

\* one call of generateLocalResponse; intent is what its call of
\* analyzeIntent returned
Synthesize(message, context, rnd) ==
    /\ synthesis' = [ message |-> message,
                      context |-> context,
                      intent  |-> IntentOf(message),
                      outcome |-> generateLocalResponse(message, context, rnd) ]
    /\ UNCHANGED notLocal

InitLocal == synthesis = NoSynthesis

NextLocal ==
    \E m \in LocalMessages, c \in LocalContexts, rnd \in RandomChoices :
        Synthesize(m, c, rnd)

-----------------------------------------------------------------------------
(* The chat handler of the web UI (mcp-server/web-ui-openai.cjs).  The     *)
(* constant openai is a client when OPENAI_API_KEY is set and null         *)
(* otherwise; providers.openai stands for the presence of that key.        *)

\* the message field of a chat_message sent to the web UI
WebMessages == {"What is a CUJ?", "Hello", Undefined}

\* getFallbackResponse(message); each text is cut to its heading
getFallbackResponse(message) ==
    IF ~IsString(message)
    THEN Thrown("Cannot read properties of undefined (reading 'toLowerCase')")
    ELSE LET lowerMessage == ToLowerCase(message)
         IN  Returned(
               IF IncludesAny(lowerMessage, {"cuj", "critical user journey"})
               THEN "**Critical User Journeys (CUJs)**"
               ELSE IF IncludesAny(lowerMessage, {"sli", "slo"})
               THEN "**Service Level Indicators & Objectives**"
               ELSE IF IncludesAny(lowerMessage, {"observability", "monitoring"})
               THEN "**Observability & Monitoring**"
               ELSE "**DevSecOps Documentation Assistant**")

\* getFallbackResponse(message) of the strings the sockets send, computed
\* once
FallbackTable ==
    [m \in {x \in WebMessages : IsString(x)} |-> getFallbackResponse(m)]

\* processWithOpenAI(message, searchResults): without a client it throws;
\* openai.chat.completions.create rejects for a failed connection, a
\* non-2xx status and a body it cannot parse; completion.choices[0]
\* .message.content throws for a body without choices; the catch block
\* wraps and rethrows
processWithOpenAI(configured, answer) ==
    IF ~configured THEN Thrown("OpenAI API key not configured")
    ELSE IF \/ answer.fetch = "rejected"
            \/ answer.status # "200"
            \/ ~answer.json
            \/ ~answer.hasList
            \/ Len(answer.items) = 0
         THEN Thrown("OpenAI processing failed")
    ELSE Returned(answer.items[1].text)

\* the handler whose inner catch block rethrows
webRespondRethrow(configured, message, answer) ==
    IF configured
    THEN processWithOpenAI(configured, answer)
    ELSE getFallbackResponse(message)

\* if (openai) { try { processWithOpenAI } catch { getFallbackResponse } }
\* else getFallbackResponse
webRespond(configured, message, answer) ==
    LET fallback == IF message \in DOMAIN FallbackTable
                    THEN FallbackTable[message]
                    ELSE getFallbackResponse(message)
    IN  IF configured
        THEN LET tried == processWithOpenAI(configured, answer)
             IN  IF tried.threw THEN fallback ELSE tried
        ELSE fallback

WebResponseEvent(message) ==
    [event |-> "chat_response", message |-> message, error |-> ""]

\* the outer catch block
WebErrorEvent ==
    [event |-> "chat_error", message |-> Undefined,
     error |-> "Sorry, I encountered an error processing your message. Please try again."]

NoWebChat == [message |-> Undefined, answer |-> NoAnswer, emitted |-> <<>>]

\* socket.on('chat_message') of the web UI.  The documentation search that
\* comes first only feeds the prompt, and its failure is caught; answer is
\* what the provider does with the completion request.
WebChat(message, answer) ==
    /\ answer = NoAnswer <=> ~providers.openai
    /\ LET r == webRespond(providers.openai, message, answer)
       IN  webChat' = [ message |-> message, answer |-> answer,
                        emitted |-> << IF r.threw THEN WebErrorEvent
                                       ELSE WebResponseEvent(r.value) >> ]
    /\ UNCHANGED notWeb

\* socket.on('chat_message') of the web UI without a data object: the
\* destructuring stands inside the try block
WebChatNoData ==
    /\ webChat' = [NoWebChat EXCEPT !.emitted = <<WebErrorEvent>>]
    /\ UNCHANGED notWeb

InitWeb == webChat = NoWebChat

NextWeb ==
    \/ \E m \in WebMessages, a \in ProviderAnswers \union {NoAnswer} : WebChat(m, a)
    \/ WebChatNoData

-----------------------------------------------------------------------------
(* queryMCPServer of web-ui-openai.cjs: each call writes a JSON-RPC        *)
(* request to the stdin of the documentation server, registers a listener  *)
(* on its stdout and arms a timer of 10 seconds.                           *)

\* the callers of queryMCPServer: each makes one call
Callers == {"a", "b", "c"}

\* the values Date.now() takes while the calls are made
Millis == {0, 1}

NoCall ==
    [ phase |-> "none", id |-> 0, listening |-> FALSE, timer |-> FALSE,
      answerOf |-> "none", settles |-> 0 ]

\* the call's promise is pending
Pending(c) == calls[c].phase = "pending"

\* the first listener on stdout: a chunk that holds the server's banner sets
\* mcpReady.  The child process (build/index.js) is an input of the model:
\* it may print the banner on stdout or never do so
McpBanner ==
    /\ ~mcpReady
    /\ mcpReady' = TRUE
    /\ UNCHANGED <<now, calls, unanswered, notMcp>>

\* mcpServer.on('close'): the server has exited; what it had not answered
\* is never answered
McpClose ==
    /\ mcpReady
    /\ mcpReady' = FALSE
    /\ unanswered' = {}
    /\ UNCHANGED <<now, calls, notMcp>>

\* a millisecond passes
Tick ==
    /\ now + 1 \in Millis
    /\ now' = now + 1
    /\ UNCHANGED <<mcpReady, calls, unanswered, notMcp>>

\* queryMCPServer(method, params): rejected at once when the server is not
\* ready; else the request gets the id Date.now(), the timer is armed, the
\* listener is registered and the request is written
Query(c) ==
    /\ calls[c].phase = "none"
    /\ IF ~mcpReady
       THEN /\ calls' = [calls EXCEPT ![c] =
                   [NoCall EXCEPT !.phase = "notReady", !.settles = 1]]
            /\ UNCHANGED unanswered
       ELSE /\ calls' = [calls EXCEPT ![c] =
                   [NoCall EXCEPT !.phase = "pending", !.id = now,
                                  !.listening = TRUE, !.timer = TRUE]]
            /\ unanswered' = unanswered \union {c}
    /\ UNCHANGED <<mcpReady, now, notMcp>>

\* handleResponse of the call of caller d on a line whose id is that of the
\* call: the timer is cleared, the listener removed, and resolve or reject
\* is called, which settles a promise that is still pending
handleResponse(call, from, isError) ==
    [ call EXCEPT
        !.timer = FALSE,
        !.listening = FALSE,
        !.phase = IF call.phase # "pending" THEN call.phase
                  ELSE IF isError THEN "rejected" ELSE "resolved",
        !.answerOf = IF call.phase = "pending" THEN from ELSE call.answerOf,
        !.settles = IF call.phase = "pending" THEN call.settles + 1 ELSE call.settles ]

\* the server answers the request of caller c with a result or an error:
\* the data event on stdout runs every registered listener; a listener
\* whose id is not that of the line keeps listening
ServerRespond(c, isError) ==
    /\ c \in unanswered
    /\ unanswered' = unanswered \ {c}
    /\ calls' = [d \in Callers |->
                   IF calls[d].listening /\ calls[d].id = calls[c].id
                   THEN handleResponse(calls[d], c, isError)
                   ELSE calls[d]]
    /\ UNCHANGED <<mcpReady, now, notMcp>>

\* the timer of the call fires: reject(new Error('MCP Server timeout')),
\* which settles a promise that is still pending
Timeout(c) ==
    /\ calls[c].timer
    /\ calls' = [calls EXCEPT ![c] =
          [ @ EXCEPT !.timer = FALSE,
                     !.phase = IF @ = "pending" THEN "timedOut" ELSE @,
                     !.settles = IF calls[c].phase = "pending" THEN @ + 1 ELSE @ ]]
    /\ UNCHANGED <<mcpReady, now, unanswered, notMcp>>

\* the module is loaded: mcpReady = false, no call has been made
InitMcp ==
    /\ mcpReady = FALSE
    /\ now = 0
    /\ calls = [c \in Callers |-> NoCall]
    /\ unanswered = {}

NextMcp ==
    \/ McpBanner
    \/ McpClose
    \/ Tick
    \/ \E c \in Callers : Query(c)
    \/ \E c \in Callers, isError \in BOOLEAN : ServerRespond(c, isError)
    \/ \E c \in Callers : Timeout(c)

-----------------------------------------------------------------------------
(* The specifications                                                      *)

Init == InitKB /\ InitDocs /\ InitChat /\ InitWeb /\ InitLocal /\ InitMcp

\* the knowledge-base server and the documentation server read no provider
\* key: their environment holds none
InitNoKeys == Init /\ selectedProvider = "local"

SpecKB == InitNoKeys /\ [][NextKB]_vars

SpecDocs == InitNoKeys /\ [][NextDocs]_vars

SpecChat == Init /\ [][NextChat]_vars

SpecLocal == InitNoKeys /\ [][NextLocal]_vars

SpecMcp == InitNoKeys /\ [][NextMcp]_vars

\* the response routers of both chat servers: the AI route of
\* ai-chat-server.js with its context loader, and the handler of the web UI
NextRouters ==
    \/ LoadContextFile
    \/ FailContextFile
    \/ SkipContextEntry
    \/ EnterDirectory
    \/ FailDirectory
    \/ \E s \in Sockets, m \in AiMessages, t \in AiTypes, rnd \in RandomChoices :
           ReceiveLocal(s, m, t, rnd)
    \/ \E s \in Sockets, m \in AiMessages, t \in AiTypes : ReceiveRemote(s, m, t)
    \/ \E s \in Sockets, a \in ProviderAnswers : ProviderAnswer(s, a)
    \/ \E s \in Sockets, rnd \in RandomChoices : Resume(s, rnd)
    \/ \E m \in WebMessages, a \in ProviderAnswers \union {NoAnswer} : WebChat(m, a)
    \/ WebChatNoData

SpecRouters == Init /\ [][NextRouters]_vars

\* what the event loop guarantees: a handler whose awaited promise has
\* settled is resumed, and the context loader goes on.  Nothing makes a
\* client send or a provider answer.
FairSpecChat ==
    /\ SpecChat
    /\ \A s \in Sockets : WF_vars(\E rnd \in RandomChoices : Resume(s, rnd))
    /\ WF_vars(LoadContextFile \/ FailContextFile \/ SkipContextEntry
                  \/ EnterDirectory \/ FailDirectory)

-----------------------------------------------------------------------------
(* Properties of the chat router                                           *)

\* the call of the selected remote provider, given the provider's answer
ProviderCall(answer) ==
    IF selectedProvider = "openai" THEN callOpenAI(answer) ELSE callAnthropic(answer)

\* the context generateAIResponse built for the handler of socket s
ContextOf(s) ==
    [knowledgeBase |-> knowledgeBase, contextFiles |-> chats[s].contextFiles]

\* a step that resumes a handler whose provider call throws emits, as its
\* only event, a chat_response with the non-empty text of the local responder
FallbackStep ==
    \A s \in Sockets :
        ( /\ chats[s].phase = "answered"
          /\ chats'[s].phase = "done"
          /\ IsString(chats[s].message)
          /\ ProviderCall(chats[s].answer).threw )
        => \E rnd \in RandomChoices :
              LET local == generateLocalResponse(chats[s].message, ContextOf(s), rnd)
              IN  /\ ~local.threw
                  /\ IsString(local.value)
                  /\ Len(local.value) > 0
                  /\ chats'[s].emitted =
                        <<ChatResponseEvent("ai_text", local.value, NoBody)>>

\* the web UI has answered a string message whose completion request threw
\* with the non-empty text of getFallbackResponse, and with nothing else
WebFallback ==
    ( /\ webChat.emitted # <<>>
      /\ IsString(webChat.message)
      /\ providers.openai
      /\ processWithOpenAI(TRUE, webChat.answer).threw )
    => LET local == getFallbackResponse(webChat.message)
       IN  /\ ~local.threw
           /\ IsString(local.value)
           /\ Len(local.value) > 0
           /\ webChat.emitted = <<WebResponseEvent(local.value)>>

\* C1: when the call of the selected remote provider throws or rejects, the
\* handler of a string message emits exactly one event, a chat_response
\* whose text is the non-empty text of the local responder
\* (generateLocalResponse in ai-chat-server.js, getFallbackResponse in the
\* web UI), and no chat_error: the failure does not reach the caller.
C1_ProviderFailureFallsBack == [][FallbackStep]_vars /\ []WebFallback

\* a string message whose provider call was rejected has been answered with
\* a non-empty text
C1_Witness ==
    \E s \in Sockets :
        /\ chats[s].phase = "done"
        /\ IsString(chats[s].message)
        /\ chats[s].answer = NetworkFailure
        /\ chats[s].providerAttempts = 1
        /\ Len(chats[s].emitted) = 1
        /\ chats[s].emitted[1].event = "chat_response"
        /\ chats[s].emitted[1].type = "ai_text"
        /\ Len(chats[s].emitted[1].message) > 0
        /\ IsString(webChat.message)
        /\ webChat.answer = ErrorStatus
        /\ webChat.emitted = <<WebResponseEvent("**Critical User Journeys (CUJs)**")>>

\* the answers of a provider that are no well-formed completion: network
\* failure, non-2xx response, malformed payload
ErrorAnswers == ProviderAnswers \ {Completion}

\* C8: for every provider error (network failure, non-2xx response,
\* malformed payload) and without credentials, the handler of a string
\* message on the AI route has emitted one chat_response whose message is a
\* string made by one local synthesis, never undefined or null.
C8_EveryProviderErrorFallsBack ==
    \A s \in Sockets :
        ( /\ chats[s].phase = "done"
          /\ IsAiRoute(chats[s].type)
          /\ IsString(chats[s].message)
          /\ (selectedProvider = "local" \/ chats[s].answer \in ErrorAnswers) )
        => /\ Len(chats[s].emitted) = 1
           /\ chats[s].emitted[1].event = "chat_response"
           /\ IsString(chats[s].emitted[1].message)
           /\ chats[s].localAttempts = 1

\* C9: every chat message whose handler waits for a provider eventually
\* reaches a terminal state: a chat_response or a chat_error is emitted.
C9_EveryMessageTerminates ==
    \A s \in Sockets :
        (chats[s].phase = "awaiting") ~> (chats[s].phase = "done")

\* C10: for each message the router makes at most one provider attempt and
\* at most one local synthesis attempt, and a handler that has ended has
\* emitted exactly one event.
C10_OneAttemptEachOneEmission ==
    \A s \in Sockets :
        /\ chats[s].providerAttempts <= 1
        /\ chats[s].localAttempts <= 1
        /\ chats[s].phase = "done" => Len(chats[s].emitted) = 1

\* the handler of socket s has ended an AI chat message with a chat_error
EndedInError(s) ==
    /\ chats[s].phase = "done"
    /\ IsAiRoute(chats[s].type)
    /\ \E i \in 1..Len(chats[s].emitted) : chats[s].emitted[i].event = "chat_error"

\* a chat_error of an AI chat message carries the error of the local
\* synthesis of a message that is no string
ErrorIsLocal ==
    \A s \in Sockets :
        EndedInError(s) =>
            /\ ~IsString(chats[s].message)
            /\ chats[s].localAttempts >= 1
            /\ generateLocalResponse(chats[s].message, ContextOf(s), 0).threw
            /\ chats[s].emitted =
                  <<ChatErrorEvent(
                      generateLocalResponse(chats[s].message, ContextOf(s), 0).error)>>

\* the step that ends a message in a chat_error changes nothing but the
\* handler of that message
ErrorIsContained ==
    \A s \in Sockets :
        (~EndedInError(s) /\ EndedInError(s)')
        => /\ UNCHANGED <<providers, selectedProvider, contextFiles, contextNext, contextLog, notChat>>
           /\ \A t \in Sockets \ {s} : chats'[t] = chats[t]

\* after a chat_error the socket is served again: the next AI chat message
\* is accepted
ServedAfterError ==
    \A s \in Sockets :
        EndedInError(s) =>
            ENABLED ( \/ ReceiveLocal(s, "What is a CUJ?", "ai_chat", 0)
                      \/ ReceiveRemote(s, "What is a CUJ?", "ai_chat") )

\* C11: a failure of the remote provider is never surfaced: a chat_error is
\* emitted for an AI chat message only when the local synthesis threw, it
\* carries that error, the step that emits it changes nothing but that
\* request, and the socket keeps being served.
C11_OnlyLocalFailureSurfaces ==
    /\ []ErrorIsLocal
    /\ [][ErrorIsContained]_vars
    /\ []ServedAfterError

\* the fixed priority list of the providers
PriorityList == <<"openai", "anthropic", "local">>

\* the first provider of the priority list that is available
FirstAvailable ==
    LET first == CHOOSE i \in 1..Len(PriorityList) :
                     /\ providers[PriorityList[i]]
                     /\ \A j \in 1..(i - 1) : ~providers[PriorityList[j]]
    IN  PriorityList[first]

\* C12: the selected provider is the first available one of openai,
\* anthropic, local, and no step, whatever messages and provider failures
\* it handles, changes the selected provider or the availability flags.
C12_ProviderFixedAtStartup ==
    /\ [](selectedProvider = FirstAvailable)
    /\ [][providers' = providers /\ selectedProvider' = selectedProvider]_vars

\* with both keys configured, a message whose call to openai failed has
\* been handled, and openai is still the selected provider
C12_Witness ==
    /\ providers.openai /\ providers.anthropic
    /\ selectedProvider = "openai"
    /\ \E s \in Sockets :
          /\ chats[s].phase = "done"
          /\ chats[s].answer = NetworkFailure

\* C13: with both API keys configured, a message whose OpenAI call failed
\* is attempted on Anthropic before the local responder is used: a handler
\* that has ended with a local synthesis has made two provider attempts.
C13_AnthropicBeforeLocal ==
    \A s \in Sockets :
        ( /\ providers.openai /\ providers.anthropic
          /\ chats[s].phase = "done"
          /\ IsAiRoute(chats[s].type)
          /\ callOpenAI(chats[s].answer).threw )
        => chats[s].providerAttempts = 2

\* a search or chat request has been taken up by some handler
QueryServed == \E s \in Sockets : chats[s].phase \in {"awaiting", "answered", "done"}

\* the loader has passed every entry of the context directory
LoadComplete == contextNext = Len(ContextDir)

\* C14: the concept sets and the context files are fully loaded before any
\* query is served, and from then on queries only read them: no request is
\* taken up before loading has finished, and once a request has been taken
\* up no step writes the concept sets, the document store or the context
\* files.
C14_LoadPhaseBeforeQueries ==
    /\ [](QueryServed => LoadComplete)
    /\ [][QueryServed => UNCHANGED <<knowledgeBase, pdfContents, contextFiles>>]_vars

\* the range of a sequence
Logged == {contextLog[k] : k \in 1..Len(contextLog)}

\* the entry is a text file whose read did not fail and that lies in no
\* directory whose read failed
Readable(entry) ==
    /\ ~entry.isDirectory
    /\ isTextFile(entry.name)
    /\ FullPath(entry) \notin Logged
    /\ \A j \in 1..Len(ContextDir) :
           (ContextDir[j].isDirectory /\ Below(entry, ContextDir[j]))
               => FullPath(ContextDir[j]) \notin Logged

Stored(entry) ==
    \E k \in 1..Len(contextFiles) :
        /\ contextFiles[k].filename = FullPath(entry)
        /\ contextFiles[k].content = entry.content
        /\ contextFiles[k].type = getFileType(entry.name)

\* of the entries the walk has passed, every text file is stored unless
\* its own read or the read of a directory above it was logged as failed
PassedAreStored ==
    \A i \in 1..contextNext : Readable(ContextDir[i]) => Stored(ContextDir[i])

\* one step of the walk over the context tree
LoaderStep ==
    LoadContextFile \/ FailContextFile \/ SkipContextEntry
        \/ EnterDirectory \/ FailDirectory

C11_Witness ==
    \E s \in Sockets :
        /\ EndedInError(s)
        /\ chats[s].answer = NetworkFailure
        /\ chats[s].providerAttempts = 1

-----------------------------------------------------------------------------
(* Properties of the documentation server                                  *)

\* the place of a document in docCache: its discovery order
CachePlace(id) == CHOOSE i \in 1..Len(docCache) : docCache[i].id = id

\* C4: the scored search never returns a result whose relevance is 0 or
\* less, whatever the query and the store.
C4_NoResultWithoutScore ==
    \A i \in 1..Len(toolReply.results) : toolReply.results[i].relevance > 0

\* a search returned results and left out a stored document that scores 0
C4_Witness ==
    /\ toolReply.kind = "found"
    /\ Len(toolReply.results) >= 2
    /\ \E d \in 1..Len(docCache) :
          /\ Relevance(docCache[d], toolReply.query) = 0
          /\ \A i \in 1..Len(toolReply.results) : toolReply.results[i].id # docCache[d].id

\* C5: the results are sorted by descending relevance, and two results of
\* equal relevance stand in the order in which the store holds their documents.
C5_SortedDescendingStable ==
    \A i, j \in 1..Len(toolReply.results) :
        i < j =>
            /\ toolReply.results[i].relevance >= toolReply.results[j].relevance
            /\ toolReply.results[i].relevance = toolReply.results[j].relevance
                  => CachePlace(toolReply.results[i].id) < CachePlace(toolReply.results[j].id)

\* three results, two of them tied, the best one loaded last
C5_Witness ==
    /\ Len(toolReply.results) = 3
    /\ toolReply.results[1].id = docCache[3].id
    /\ toolReply.results[1].relevance > toolReply.results[2].relevance
    /\ toolReply.results[2].relevance = toolReply.results[3].relevance

\* the store holds the one document SLO Guide
OnlySloGuide ==
    /\ Len(docCache) = 1
    /\ docCache[1].title = "SLO Guide.md"
    /\ docCache[1].content = "Our service level objective is 99.9% availability."

\* C17: with the one document SLO Guide in the store, search_docs for "slo"
\* returns it with relevance 10 or more and with a snippet that contains
\* "service level objective".
C17_SloGuideFoundWithSnippet ==
    [][ (OnlySloGuide /\ SearchDocs("slo", Undefined, Undefined))
            => /\ toolReply'.kind = "found"
               /\ \E i \in 1..Len(toolReply'.results) :
                      LET r == toolReply'.results[i]
                      IN  /\ r.title = "SLO Guide.md"
                          /\ r.relevance >= 10
                          /\ \E k \in 1..Len(r.snippets) :
                                 Includes(r.snippets[k], "service level objective") ]_vars

\* the concept sets of the context are all empty
NoConcepts(context) ==
    \A k \in ConceptKeys : context.knowledgeBase[k] = <<>>

\* the text states the count n of the concept named label, as the templates
\* do ("You have 0 CUJs in your knowledge base", "0 SLIs and 0 SLOs")
ShowsCount(text, n, label) ==
    Includes(text, ToString(n) \o " " \o label)

\* C18: with all concept sets empty the message "What is a CUJ?" is
\* classified as primary cuj, question type what, and the local response
\* states the count 0 of the cujs set.
C18_EmptySetsShowCujCount ==
    (synthesis.message = "What is a CUJ?" /\ NoConcepts(synthesis.context))
        => /\ synthesis.intent.primary = "cuj"
           /\ synthesis.intent.questionType = "what"
           /\ ~synthesis.outcome.threw
           /\ ShowsCount(synthesis.outcome.value,
                         Len(synthesis.context.knowledgeBase.cujs), "CUJ")

\* the keyword groups of the three axes in the order analyzeIntent tests
\* them: anywhere are the keywords of includes, atStart those of startsWith
PrimaryGroups == <<
    [value |-> "cuj", atStart |-> {},
     anywhere |-> {"cuj", "critical user journey", "user journey"}],
    [value |-> "sli", atStart |-> {},
     anywhere |-> {"sli", "service level indicator", "indicator"}],
    [value |-> "slo", atStart |-> {},
     anywhere |-> {"slo", "service level objective", "objective"}],
    [value |-> "observability", atStart |-> {},
     anywhere |-> {"observability", "monitoring", "metrics"}],
    [value |-> "security", atStart |-> {},
     anywhere |-> {"security", "devsecops", "vulnerability"}],
    [value |-> "implementation", atStart |-> {},
     anywhere |-> {"implement", "setup", "configure"}],
    [value |-> "comparison", atStart |-> {},
     anywhere |-> {"difference", "compare", "vs"}],
    [value |-> "troubleshooting", atStart |-> {},
     anywhere |-> {"problem", "issue", "troubleshoot", "debug"}] >>

QuestionGroups == <<
    [value |-> "how",  atStart |-> {"how"},  anywhere |-> {"how do", "how to"}],
    [value |-> "what", atStart |-> {"what"}, anywhere |-> {"what is", "what are"}],
    [value |-> "why",  atStart |-> {"why"},  anywhere |-> {"why should"}],
    [value |-> "when", atStart |-> {"when"}, anywhere |-> {"when to"}],
    [value |-> "recommendation", atStart |-> {},
     anywhere |-> {"best practice", "recommend"}] >>

SpecificityGroups == <<
    [value |-> "beginner", atStart |-> {},
     anywhere |-> {"start", "begin", "getting started"}],
    [value |-> "advanced", atStart |-> {},
     anywhere |-> {"advanced", "complex", "detailed"}],
    [value |-> "example", atStart |-> {}, anywhere |-> {"example", "sample"}] >>

\* a keyword of the group occurs in the message
GroupMatches(group, messageLower) ==
    \/ \E k \in group.anywhere : Includes(messageLower, k)
    \/ \E k \in group.atStart : StartsWith(messageLower, k)

\* the groups of the list that match, by their place
Matching(groups, messageLower) ==
    {i \in 1..Len(groups) : GroupMatches(groups[i], messageLower)}

\* the value of the first group of the list that matches, general if none
FirstMatching(groups, messageLower) ==
    LET hits == Matching(groups, messageLower)
    IN  IF hits = {} THEN "general"
        ELSE groups[CHOOSE i \in hits : \A j \in hits : i <= j].value

SizesOf(context) ==
    [ concepts |-> ConceptCounts(context.knowledgeBase),
      contextFiles |-> Len(context.contextFiles) ]

\* C20: the local responder is deterministic: two calls with the same
\* message, the same concept-set sizes and the same number of context files
\* return the same text.
C20_LocalResponderDeterministic ==
    [][ ( /\ synthesis'.message = synthesis.message
          /\ SizesOf(synthesis'.context) = SizesOf(synthesis.context) )
            => synthesis'.outcome = synthesis.outcome ]_vars

\* the stored document matches the query: by its file name or by its content
DocumentMatches(e, query) ==
    \/ Includes(ToLowerCase(e.filename), ToLowerCase(query))
    \/ Includes(ToLowerCase(e.content), ToLowerCase(query))

\* the search result lists, under pdfMatches, exactly the stored documents
\* that match the query, in store order, each with its snippets
ListsMatchingDocuments(result, map, query) ==
    LET expected == SelectSeq(map, LAMBDA e : DocumentMatches(e, query))
        listed   == HitsOf(result, "pdfMatches")
    IN  /\ Len(listed) = Len(expected)
        /\ \A i \in 1..Len(listed) :
              /\ listed[i].filename = expected[i].filename
              /\ listed[i].relevantSnippets
                     = extractRelevantSnippets(expected[i].content, query)

\* C21: the stored documents are searchable in every server that exposes
\* the search: a search with the category pdfs on server.js, and a search
\* on the socket of ai-chat-server.js, list exactly the stored documents
\* whose file name or content contains the query, in a list of their own.
C21_DocumentsAreSearchable ==
    [][ /\ \A q \in Queries \ {""} :
              ApiSearch(q, "pdfs")
                  => /\ DOMAIN reply'.body.results = {"pdfMatches"}
                     /\ ListsMatchingDocuments(reply'.body, pdfContents, q)
        /\ \A s \in Sockets, m \in {x \in AiMessages : IsString(x)} :
              ReceiveStructured(s, m, "search")
                  => ListsMatchingDocuments(chats'[s].emitted[1].body, pdfContents, m)
      ]_vars

\* the place of the entry in the concept list
PlaceIn(arr, e) == CHOOSE i \in 1..Len(arr) : arr[i] = e

\* the list holds exactly the entries of the concept set that contain the
\* query, each once, in the order of the set
IsFilteredList(list, arr, query) ==
    /\ \A i \in 1..Len(list) :
          /\ \E j \in 1..Len(arr) : arr[j] = list[i]
          /\ Includes(ToLowerCase(list[i]), ToLowerCase(query))
    /\ \A j \in 1..Len(arr) :
          Includes(ToLowerCase(arr[j]), ToLowerCase(query))
              => \E i \in 1..Len(list) : list[i] = arr[j]
    /\ \A i, k \in 1..Len(list) :
          i < k => PlaceIn(arr, list[i]) < PlaceIn(arr, list[k])

\* the keys of results a search of the category fills on server.js
KeysSearched(category) ==
    IF category = "all" THEN DOMAIN CategoryKeys
    ELSE {k \in DOMAIN CategoryKeys : CategoryKeys[k] = category}

\* the search result has the four fields, one list per searched category,
\* filtered concept lists, and the sum of the list lengths as totalMatches
WellShaped(result, kb, keys) ==
    /\ DOMAIN result = {"query", "category", "results", "totalMatches"}
    /\ DOMAIN result.results = keys
    /\ \A k \in keys \cap ConceptKeys :
          IsFilteredList(result.results[k], kb[k], result.query)
    /\ result.totalMatches =
          Len(HitsOf(result, "cujs")) + Len(HitsOf(result, "slis"))
            + Len(HitsOf(result, "slos")) + Len(HitsOf(result, "bestPractices"))
            + Len(HitsOf(result, "pdfMatches")) + Len(HitsOf(result, "contextMatches"))

C22_AiSearchResultShape ==
    [][ \A s \in Sockets :
            ( /\ chats'[s] # chats[s]
              /\ chats'[s].type = "search"
              /\ IsString(chats'[s].message) )
                => WellShaped(chats'[s].emitted[1].body, knowledgeBase,
                              ConceptKeys \union {"contextMatches"}) ]_vars

\* the number of occurrences of q as a literal substring of text from index
\* i on, counted left to right without overlap (q is not empty)
RECURSIVE LiteralCountFrom(_, _, _)
LiteralCountFrom(q, text, i) ==
    IF i + Len(q) - 1 > Len(text) THEN 0
    ELSE IF SubSeq(text, i, i + Len(q) - 1) = q
         THEN 1 + LiteralCountFrom(q, text, i + Len(q))
         ELSE LiteralCountFrom(q, text, i + 1)

\* the score of the document for the query by title, literal occurrences in
\* the body and key terms
LiteralRelevance(doc, query) ==
    LET queryLower   == ToLowerCase(query)
        contentLower == ToLowerCase(doc.content)
    IN  (IF Includes(ToLowerCase(doc.title), queryLower) THEN 10 ELSE 0)
          + LiteralCountFrom(queryLower, contentLower, 1)
          + 5 * Cardinality({t \in 1..Len(keyTerms) :
                                /\ Includes(queryLower, keyTerms[t])
                                /\ Includes(contentLower, keyTerms[t])})

\* the document of the cache a result names
CachedDoc(id) == docCache[CachePlace(id)]

\* C23: the relevance of every result of search_docs is 10 for a title that
\* contains the query, plus the number of literal, non-overlapping
\* occurrences of the query in the body, plus 5 for each key term in both
\* query and body; a query with characters that are special in regular
\* expressions is scored the same way.
C23_RelevanceIsLiteralScore ==
    /\ toolReply.error # "Invalid regular expression"
    /\ toolReply.kind = "found" =>
          \A i \in 1..Len(toolReply.results) :
              toolReply.results[i].relevance
                  = LiteralRelevance(CachedDoc(toolReply.results[i].id), toolReply.query)

\* the snippets are the first of the units of the content that contain the
\* query, in the order of the content, trimmed, the empty ones left out
AreOrderedTrimmedUnits(snippets, content, query) ==
    LET matching == SelectSeq(SplitSentences(content),
                              LAMBDA u : ContainsQuery(u, query))
        trimmed  == [i \in 1..Len(matching) |-> Trim(matching[i])]
    IN  /\ \A i \in 1..Len(snippets) : snippets[i] # ""
        /\ IsPrefix(snippets, SelectSeq(trimmed, LAMBDA u : u # ""))

\* C24: the snippets of every search result are units of the content that
\* contain the query, in their order in the content, each trimmed of
\* leading and trailing white space, and none of them is the empty string,
\* for every query that is not empty, also one of white space only.
C24_SnippetsOrderedTrimmedNonEmpty ==
    /\ \A l \in SnippetLists(reply) :
          SearchResultOf(reply).query # ""
              => AreOrderedTrimmedUnits(l.snippets, l.content,
                                        SearchResultOf(reply).query)
    /\ toolReply.kind = "found" =>
          \A i \in 1..Len(toolReply.results) :
              AreOrderedTrimmedUnits(toolReply.results[i].snippets,
                                     CachedDoc(toolReply.results[i].id).content,
                                     toolReply.query)

\* the values analyzeIntent can give the three keys of an intent
Primaries == {"cuj", "sli", "slo", "observability", "security",
              "implementation", "comparison", "troubleshooting", "general"}

QuestionTypes == {"how", "what", "why", "when", "recommendation", "general"}

Specificities == {"beginner", "advanced", "example", "general"}

AllIntents == [primary : Primaries, questionType : QuestionTypes,
               specificity : Specificities]

\* how the template written for more than the primary topic opens, "" where
\* none is written for the intent
TripleOpening(intent) ==
    LET how  == intent.questionType = "how" /\ intent.specificity = "beginner"
        what == intent.questionType = "what"
        p    == intent.primary
    IN  IF p = "cuj" /\ how THEN "Great question! Let me walk you through getting started with Critical User Journeys"
        ELSE IF p = "cuj" /\ what THEN "Critical User Journeys (CUJs) are the backbone"
        ELSE IF p = "sli" /\ how THEN "Let me guide you through creating effective Service Level Indicators"
        ELSE IF p = "sli" /\ what THEN "Service Level Indicators (SLIs) are the quantitative measures"
        ELSE IF p = "slo" /\ how THEN "Let me help you set up Service Level Objectives"
        ELSE IF p = "slo" /\ what THEN "Service Level Objectives (SLOs) are your reliability targets"
        ELSE IF p = "observability" /\ how THEN "Perfect! Let me guide you through starting with observability"
        ELSE IF p = "observability" /\ what THEN "Observability is your ability to understand"
        ELSE IF p = "security" /\ how THEN "Great question! Let me help you get started with DevSecOps"
        ELSE IF p = "general" /\ intent.specificity = "beginner" THEN "Welcome to DevSecOps observability!"
        ELSE ""

\* how the templates written for the primary topic alone open, {} where none
\* is written for the topic
PrimaryOpenings(primary) ==
    CASE primary = "cuj" ->
           {"Critical User Journeys (CUJs) are end-to-end workflows",
            "When defining CUJs", "A good CUJ", "Based on the CBA framework"}
      [] primary = "sli" ->
           {"Service Level Indicators (SLIs) are specific metrics",
            "Good SLIs", "When choosing SLIs", "SLIs should be based"}
      [] primary = "slo" ->
           {"Service Level Objectives (SLOs) are targets",
            "Start with achievable SLO targets", "SLOs should align",
            "Error budgets from SLOs"}
      [] primary = "observability" ->
           {"The CBA framework emphasizes", "Observability maturity",
            "Focus on application-level observability", "Good observability combines"}
      [] primary = "security" ->
           {"DevSecOps is about", "Key practices include", "Security SLIs might include",
            "Remember: security"}
      [] primary = "implementation" -> {"I'd be happy to help you implement this!"}
      [] primary = "comparison" ->
           {"Great question! Here's the key difference between SLIs and SLOs",
            "Excellent question! Here's how observability and monitoring differ",
            "I'd be happy to help compare those concepts!"}
      [] primary = "troubleshooting" -> {"I'm here to help troubleshoot!"}
      [] OTHER -> {}

\* how the template written for no key opens
GenericOpening == "I'm your DevSecOps SME assistant"

\* the text is one of the most specific templates written for the intent
Degrades(text, intent) ==
    /\ Len(text) > 0
    /\ IF TripleOpening(intent) # ""
       THEN StartsWith(text, TripleOpening(intent))
       ELSE IF PrimaryOpenings(intent.primary) # {}
       THEN \E o \in PrimaryOpenings(intent.primary) : StartsWith(text, o)
       ELSE StartsWith(text, GenericOpening)

\* every value of an intent has its template
EveryIntentDegrades ==
    \A intent \in AllIntents, m \in LocalMessages, rnd \in RandomChoices :
        Degrades(SwitchPrimary(m, intent,
                     extractContextInfo(<<>>, [cujs |-> <<>>, slis |-> <<>>,
                                               slos |-> <<>>, bestPractices |-> <<>>]),
                     rnd), intent)

\* C25: the local synthesis answers a classified message with non-empty
\* text, from the template written for the intent's keys where there is one,
\* else from a template of the primary topic alone, else from the generic
\* template; every value of an intent has a template.
C25_TemplateByGracefulDegradation ==
    /\ EveryIntentDegrades
    /\ IsString(synthesis.message)
         => /\ ~synthesis.outcome.threw
            /\ synthesis.intent \in AllIntents
            /\ Degrades(synthesis.outcome.value, synthesis.intent)

\* a message of topic slo with no template for its question type was
\* answered from a template of the topic alone
C25_Witness ==
    /\ synthesis.message = "slo tips"
    /\ TripleOpening(synthesis.intent) = ""
    /\ \E o \in PrimaryOpenings("slo") : StartsWith(synthesis.outcome.value, o)

\* the state the handlers of all messages share
SharedState == <<pdfContents, knowledgeBase, contextFiles, providers, selectedProvider>>

\* the event a call of generateAIResponse ends in is that of
\* generateResponse for the provider the configuration selects, the message,
\* the context and the provider's answer, whatever was handled before
AnswerOfItsOwn(c) ==
    \E rnd \in RandomChoices :
        c.emitted[Len(c.emitted)] =
            EmitOutcome(generateResponse(getAvailableProvider(providers), c.message,
                            [knowledgeBase |-> knowledgeBase, contextFiles |-> c.contextFiles],
                            c.answer, rnd).outcome)

\* C26: handling a chat message changes no shared state: a step of a chat
\* handler leaves the document store, the concept sets, the context files
\* and the selected provider as they were, however the call ends, and the
\* answer it emits is determined by the message and that state alone.
C26_ChatChangesNoSharedState ==
    [][ \A s \in Sockets :
          chats'[s] # chats[s] =>
            /\ UNCHANGED SharedState
            /\ (chats'[s].phase = "done" /\ IsAiRoute(chats'[s].type))
                  => AnswerOfItsOwn(chats'[s]) ]_vars

\* with a document stored, a message has been answered by the remote
\* provider
C26_Witness ==
    /\ Len(pdfContents) > 0
    /\ selectedProvider # "local"
    /\ \E s \in Sockets :
          /\ chats[s].phase = "done"
          /\ IsAiRoute(chats[s].type)
          /\ chats[s].providerAttempts > 0
          /\ chats[s].localAttempts = 0

\* every fragment of the text is in the concept sets: extracting the text
\* again adds nothing
FragmentsPresent(text) ==
    extractDevSecOpsContent(knowledgeBase, text) = knowledgeBase

\* C27: storing an uploaded document and extracting its concepts is atomic:
\* in every state a request can observe, the fragments of every document in
\* pdfContents are in the concept sets, and no concept set holds an entry
\* twice.
C27_StoreAndExtractAtomic ==
    /\ \A i \in 1..Len(pdfContents) : FragmentsPresent(pdfContents[i].content)
    /\ \A k \in ConceptKeys : NoDuplicates(knowledgeBase[k])

\* a search was answered with two documents stored whose fragments went to
\* different concept sets
C27_Witness ==
    /\ reply.kind = "search"
    /\ Len(pdfContents) = 2
    /\ Len(knowledgeBase.cujs) > 0
    /\ Len(knowledgeBase.bestPractices) > 0

\* the step is an upload whose processPDF failed
UploadFailed == uploads' # uploads /\ reply'.status = "500"

\* C28: when processPDF fails because the file cannot be read or parsed, the
\* upload is answered with the error 'Failed to process PDF' and the step
\* leaves pdfContents and the four concept sets exactly as they were.
C28_FailedUploadChangesNothing ==
    [][ UploadFailed =>
          /\ StartsWith(reply'.error, "Failed to process PDF")
          /\ UNCHANGED <<pdfContents, knowledgeBase>> ]_vars

\* an upload has failed after another one had filled the store
C28_Witness ==
    /\ reply.status = "500"
    /\ reply.error = "Failed to process PDF"
    /\ uploads = 2
    /\ Len(pdfContents) = 1
    /\ Len(knowledgeBase.cujs) > 0

-----------------------------------------------------------------------------
(* Properties of queryMCPServer                                            *)

\* the call has settled through a response of the server
SettledByResponse(c) == calls[c].phase \in {"resolved", "rejected"}

\* the call has settled
Settled(c) == calls[c].phase \in {"resolved", "rejected", "notReady", "timedOut"}

\* C29: each call of queryMCPServer settles only with the response to its
\* own request: the ids of calls that are pending together are pairwise
\* distinct, and a call that resolved or was rejected by a response got the
\* response that answers its own request.
C29_OwnResponseOnly ==
    /\ \A c, d \in Callers :
          (c # d /\ Pending(c) /\ Pending(d)) => calls[c].id # calls[d].id
    /\ \A c \in Callers : SettledByResponse(c) => calls[c].answerOf = c

\* C30: every call of queryMCPServer settles exactly once, and once it has
\* settled its stdout listener has been removed and its timer cleared, so
\* the registered listeners are never more than the pending calls.
C30_SettledCallsHoldNothing ==
    /\ \A c \in Callers :
          /\ calls[c].settles <= 1
          /\ Settled(c) => (calls[c].settles = 1 /\ ~calls[c].listening /\ ~calls[c].timer)
    /\ Cardinality({c \in Callers : calls[c].listening})
          <= Cardinality({c \in Callers : Pending(c)})

=============================================================================
